---- MODULE Spec2Model ----
(***************************************************************************)
(* Verification model of spring-error-analyzer.                            *)
(*                                                                         *)
(*   LogParser          src/src/analyzer/LogParser.ts   (lines 9-142)      *)
(*   ClaudeAnalyzer     src/src/analyzer/LogParser.ts   (lines 148-284)    *)
(*   LocalAnalyzer      src/src/analyzer/LocalAnalyzer.ts                  *)
(*   SpringBootService  src/unnamed/part_002            (lines 335-872)    *)
(*                                                                         *)
(* Text is modelled at token level: a line is a sequence of tokens, a      *)
(* token is a maximal lexical unit the regular expressions of the source   *)
(* tell apart (a timestamp, a level word, a whitespace run, a bracket, a   *)
(* word).  Arrays live in a heap and are referred to by index, so that an  *)
(* in-place push and a copy ([...a]) are different things.                 *)
(***************************************************************************)
EXTENDS Integers, Sequences, FiniteSets, TLC

\* ------------------------------------------------------------------ bounds
MaxLines == 3

\* ------------------------------------------------------------ token classes
\* \s : whitespace runs
WS == {" ", "    ", "\t", "\n"}
\* \d{4}-\d{2}-\d{2}[T ]\d{2}:\d{2}:\d{2}\.\d{3}[^\s]*
Timestamps == {"2024-01-15 10:30:45.123", "2026-02-15T00:35:53.588+09:00"}
\* (ERROR|WARN|INFO|DEBUG|TRACE)
Levels == {"ERROR", "WARN", "INFO", "DEBUG", "TRACE"}
\* (\d+)
Pids == {"12345", "3228"}
\* ([\w.$]+)
LoggerTokens == {"c.e.demo.MyApp", "o.s.boot.SpringApplication"}
\* ^[\w.$]+(?:Exception|Error|Throwable)
ExceptionTokens == {"java.lang.NullPointerException", "java.sql.SQLException",
                    "org.springframework.jdbc.BadSqlGrammarException",
                    "org.springframework.transaction.UnexpectedRollbackException"}
\* ^\*+$
StarTokens == {"*", "***"}

ServiceId == "svc"
Placeholder == <<"Error (see details)">>
Separator == <<" ", "|", " ">>

\* ------------------------------------------------------------ string helpers
At(line, i) == IF i \in 1..Len(line) THEN line[i] ELSE "<eol>"

RECURSIVE trimEnd(_)
trimEnd(s) ==
  IF s # <<>> /\ s[Len(s)] \in WS THEN trimEnd(SubSeq(s, 1, Len(s) - 1)) ELSE s

RECURSIVE trimStart(_)
trimStart(s) ==
  IF s # <<>> /\ s[1] \in WS THEN trimStart(Tail(s)) ELSE s

trim(s) == trimStart(trimEnd(s))

\* truthiness of s.trim()
HasText(s) == trim(s) # <<>>

\* index of the first token at or after i that is not whitespace
RECURSIVE SkipWs(_, _)
SkipWs(line, i) ==
  IF i <= Len(line) /\ line[i] \in WS THEN SkipWs(line, i + 1) ELSE i

\* index of the first "]" at or after i, 0 when there is none
RECURSIVE FindClose(_, _)
FindClose(line, i) ==
  IF i > Len(line) THEN 0
  ELSE IF line[i] = "]" THEN i
  ELSE FindClose(line, i + 1)

\* \[[^\]]{minInner,}\] starting at i: index of the closing bracket, else 0
Bracket(line, i, minInner) ==
  LET c == FindClose(line, i + 1)
  IN  IF At(line, i) = "[" /\ c # 0 /\ c - i - 1 >= minInner THEN c ELSE 0

\* \s+([\w.$]+)\s*:\s*(.*)$ after the thread bracket closing at c
LoggerAt(line, c) == SkipWs(line, c + 1)
ColonAt(line, c) == SkipWs(line, LoggerAt(line, c) + 1)
TailOk(line, c) ==
  /\ LoggerAt(line, c) > c + 1
  /\ At(line, LoggerAt(line, c)) \in LoggerTokens
  /\ At(line, ColonAt(line, c)) = ":"

NoMatch == [ok |-> FALSE]

\* trimmed.match(LOG_LINE_REGEX)
MatchLogLine(line) ==
  LET i2 == SkipWs(line, 2)
      i3 == SkipWs(line, i2 + 1)
      i4 == SkipWs(line, i3 + 1)
      i5 == SkipWs(line, i4 + 1)
      prefixOk == /\ At(line, 1) \in Timestamps
                  /\ i2 > 2 /\ At(line, i2) \in Levels
                  /\ i3 > i2 + 1 /\ At(line, i3) \in Pids
                  /\ i4 > i3 + 1 /\ At(line, i4) = "---"
                  /\ i5 > i4 + 1
      \* with the optional (?:\[[^\]]*\]\s+) group
      c1 == Bracket(line, i5, 0)
      j  == SkipWs(line, c1 + 1)
      c2with == IF c1 # 0 /\ j > c1 + 1 THEN Bracket(line, j, 1) ELSE 0
      withOk == c2with # 0 /\ TailOk(line, c2with)
      \* without it
      c2without == Bracket(line, i5, 1)
      withoutOk == c2without # 0 /\ TailOk(line, c2without)
      open  == IF withOk THEN j ELSE i5
      close == IF withOk THEN c2with ELSE c2without
  IN  IF prefixOk /\ (withOk \/ withoutOk)
      THEN [ok |-> TRUE,
            timestamp |-> line[1],
            level |-> line[i2],
            pid |-> line[i3],
            thread |-> SubSeq(line, open + 1, close - 1),
            logger |-> line[LoggerAt(line, close)],
            message |-> SubSeq(line, SkipWs(line, ColonAt(line, close) + 1), Len(line))]
      ELSE NoMatch

\* STACK_TRACE_LINE_REGEX = /^\s+at\s+/
IsStackTraceLine(t) ==
  LET j == SkipWs(t, 1)
  IN  j > 1 /\ At(t, j) = "at" /\ At(t, j + 1) \in WS

\* CAUSED_BY_REGEX = /^Caused by:\s+/
IsCausedBy(t) == At(t, 1) = "Caused by:" /\ At(t, 2) \in WS

\* EXCEPTION_LINE_REGEX = /^[\w.$]+(?:Exception|Error|Throwable)/
IsExceptionLine(t) == At(t, 1) \in ExceptionTokens

\* the test of the continuation branch
IsTraceLine(t) ==
  \/ IsStackTraceLine(t)
  \/ IsCausedBy(t)
  \/ IsExceptionLine(t)
  \/ At(t, 1) = "\t"
  \/ (At(t, 1) = "    " /\ At(t, 2) = "...")

\* the filter of flushCurrentError: t && !/^\*+$/.test(t)
IsMeaningful(line) ==
  LET t == trim(line)
  IN  t # <<>> /\ ~(\A k \in 1..Len(t) : t[k] \in StarTokens)

\* Array.prototype.join(' | ')
RECURSIVE JoinLines(_)
JoinLines(ls) ==
  IF ls = <<>> THEN <<>>
  ELSE IF Len(ls) = 1 THEN ls[1]
  ELSE ls[1] \o Separator \o JoinLines(Tail(ls))

\* ------------------------------------------------------------------ inputs
\* Lines the monitored process may deliver (readline has removed the newline).
TS2 == "2024-01-15 10:30:45.123"
TS3 == "2026-02-15T00:35:53.588+09:00"
HeadBoot2(level) ==
  <<TS2, " ", level, " ", "12345", " ", "---", " ", "[", "main", "]", " ",
    "c.e.demo.MyApp", " ", ":", " ">>
\* Spring Boot 2.x ERROR header with a message
LineErrBoom == HeadBoot2("ERROR") \o <<"boom">>
\* Spring Boot 3.x ERROR header, [app] [ thread], blank message, trailing blank
LineErrBlank ==
  <<TS3, " ", "ERROR", " ", "3228", " ", "---", " ", "[", "demo-system", "]", " ",
    "[", " ", "restartedMain", "]", " ", "o.s.boot.SpringApplication", " ", ":", " ">>
LineWarnRollback == HeadBoot2("WARN") \o <<"Transaction rolled back">>
LineInfo == HeadBoot2("INFO") \o <<"Started">>
\* looks like a header, but the thread bracket is empty: LOG_LINE_REGEX fails
LineNoThread ==
  <<TS2, " ", "ERROR", " ", "12345", " ", "---", " ", "[", "]", " ",
    "c.e.demo.MyApp", " ", ":", " ", "boom">>
LineFrame == <<"\t", "at", " ", "com.foo.Bar.baz(Bar.java:10)">>
LineCausedBy == <<"Caused by:", " ", "java.sql.SQLException">>
\* free text with trailing whitespace
LineContext == <<"Description:", " ">>
LineStars == <<"***">>
LineEmpty == <<>>
LineSpaces == <<" ">>

Lines == {LineErrBoom, LineErrBlank, LineWarnRollback, LineInfo, LineNoThread,
          LineFrame, LineCausedBy, LineContext, LineStars, LineEmpty, LineSpaces}

\* the two characters backslash and n, written by a logger in place of a line
\* break: an ordinary word to every regular expression of the parser
EscapedNewline == "\\n"
\* an ERROR header, a frame and a context line delivered as one line
LineEscaped ==
  LineErrBoom \o <<EscapedNewline>> \o LineFrame \o <<EscapedNewline, "Description:">>
\* a continuation delivered with its successor in one line
LineEscapedFrames == LineFrame \o <<EscapedNewline>> \o LineCausedBy
EscapedLines == {LineEscaped, LineEscapedFrames}

\* ------------------------------------------------------------------- state
VARIABLES
  currentError,        \* <<>> (null) or <<partial ErrorBlock>>
  stackTraceBuffer,    \* heap reference
  rawLinesBuffer,      \* heap reference
  contextLinesBuffer,  \* heap reference
  errorCounter,
  heap,                \* the arrays: heap[ref] is a sequence of lines
  emitted,             \* events delivered by emit(), oldest first
  input,               \* instrumentation: the raw lines delivered so far
  openedAt,            \* instrumentation: index in input of the open record's header
  suppressed           \* instrumentation: the records closed without an emission

parserVars == <<currentError, stackTraceBuffer, rawLinesBuffer, contextLinesBuffer,
                errorCounter, heap, emitted, input, openedAt, suppressed>>

\* the parser object as one value
Parser ==
  [currentError |-> currentError, stackTraceBuffer |-> stackTraceBuffer,
   rawLinesBuffer |-> rawLinesBuffer, contextLinesBuffer |-> contextLinesBuffer,
   errorCounter |-> errorCounter, heap |-> heap, emitted |-> emitted,
   input |-> input, openedAt |-> openedAt, suppressed |-> suppressed]

\* new LogParser(serviceId)
NewParser ==
  [currentError |-> <<>>, stackTraceBuffer |-> 1, rawLinesBuffer |-> 2,
   contextLinesBuffer |-> 3, errorCounter |-> 0, heap |-> << <<>>, <<>>, <<>> >>,
   emitted |-> <<>>, input |-> <<>>, openedAt |-> 0, suppressed |-> {}]

\* array.push(x)
Push(p, ref, x) == [p EXCEPT !.heap[ref] = Append(@, x)]

\* `${this.serviceId}-err-${n}`
ErrorId(n) == <<ServiceId, "err", n>>

\* ------------------------------------------------------ flushCurrentError
\* lines 105-116: the effective message
EffectiveMessage(msg, ctx) ==
  IF ~HasText(msg) /\ Len(ctx) > 0
  THEN LET joined == JoinLines(SelectSeq(ctx, IsMeaningful))
       IN  IF joined = <<>> THEN Placeholder ELSE joined
  ELSE msg

\* lines 120-134: build the ErrorBlock from fresh arrays and emit it
EmitError(p, message, last) ==
  LET cur == p.currentError[1]
      allTraceLines == p.heap[p.stackTraceBuffer]
                         \o SelectSeq(p.heap[p.contextLinesBuffer], HasText)
      h1 == Append(p.heap, allTraceLines)
      h2 == Append(h1, p.heap[p.rawLinesBuffer])
      errorBlock == [id |-> cur.id, timestamp |-> cur.timestamp, level |-> cur.level,
                     logger |-> cur.logger, thread |-> cur.thread,
                     message |-> message, stackTrace |-> Len(h1),
                     rawLines |-> Len(h2), serviceId |-> ServiceId]
  IN  [p EXCEPT !.heap = h2,
                !.emitted = Append(@, [type |-> "error", payload |-> errorBlock,
                                       src |-> p.openedAt, last |-> last])]

\* lines 137-140
ResetBuffers(p) ==
  LET h1 == Append(p.heap, <<>>)
      h2 == Append(h1, <<>>)
      h3 == Append(h2, <<>>)
  IN  [p EXCEPT !.currentError = <<>>, !.heap = h3,
                !.stackTraceBuffer = Len(h1), !.rawLinesBuffer = Len(h2),
                !.contextLinesBuffer = Len(h3), !.openedAt = 0]

\* line 118 false: nothing is emitted (instrumentation: remember which record)
Suppress(p, last) ==
  [p EXCEPT !.suppressed =
     @ \cup {[id |-> p.currentError[1].id, src |-> p.openedAt, last |-> last]}]

\* a flush that forgets lines 137-140
flushCurrentError_noReset(p, last) ==
  IF p.currentError = <<>> THEN p
  ELSE LET message == EffectiveMessage(p.currentError[1].message,
                                       p.heap[p.contextLinesBuffer])
       IN  IF HasText(message) THEN EmitError(p, message, last)
           ELSE Suppress(p, last)

\* a flush without the guard of lines 99-101: the buffers are replaced even
\* when no record is open
flushCurrentError_unguarded(p, last) ==
  IF p.currentError = <<>> THEN ResetBuffers(p)
  ELSE LET message == EffectiveMessage(p.currentError[1].message,
                                       p.heap[p.contextLinesBuffer])
       IN  ResetBuffers(IF HasText(message) THEN EmitError(p, message, last)
                        ELSE Suppress(p, last))

\* `last` is instrumentation: the index in input of the block's last line
flushCurrentError(p, last) ==
  IF p.currentError = <<>> THEN p
  ELSE LET message == EffectiveMessage(p.currentError[1].message,
                                       p.heap[p.contextLinesBuffer])
       IN  ResetBuffers(IF HasText(message) THEN EmitError(p, message, last)
                        ELSE Suppress(p, last))

\* -------------------------------------------------------------- parseLine
\* a blank-line branch that keeps the line out of rawLinesBuffer
BlankBranch_noRaw(p) ==
  IF p.currentError # <<>> THEN Push(p, p.contextLinesBuffer, <<>>) ELSE p

\* lines 33-39
BlankBranch(p) ==
  IF p.currentError # <<>>
  THEN Push(Push(p, p.rawLinesBuffer, <<>>), p.contextLinesBuffer, <<>>)
  ELSE p

\* a log event for the non-error severities only
EmitLog_skipError(p, trimmed, m) ==
  IF m.level = "ERROR" THEN p
  ELSE [p EXCEPT !.emitted =
          Append(@, [type |-> "log",
                     payload |-> [timestamp |-> m.timestamp, level |-> m.level,
                                  pid |-> m.pid, thread |-> trim(m.thread),
                                  logger |-> m.logger, message |-> m.message,
                                  raw |-> trimmed],
                     src |-> Len(p.input), last |-> Len(p.input)])]

\* lines 47-58
EmitLog(p, trimmed, m) ==
  [p EXCEPT !.emitted =
     Append(@, [type |-> "log",
                payload |-> [timestamp |-> m.timestamp, level |-> m.level,
                             pid |-> m.pid, thread |-> trim(m.thread),
                             logger |-> m.logger, message |-> m.message,
                             raw |-> trimmed],
                src |-> Len(p.input), last |-> Len(p.input)])]

\* the open with the counter post-incremented (this.errorCounter++)
OpenError_postIncrement(p, trimmed, m) ==
  IF m.level = "ERROR"
  THEN LET h1 == Append(p.heap, <<>>)
           h2 == Append(h1, <<trimmed>>)
           h3 == Append(h2, <<>>)
       IN  [p EXCEPT !.errorCounter = @ + 1,
                     !.currentError = << [id |-> ErrorId(p.errorCounter),
                                          timestamp |-> m.timestamp, level |-> "ERROR",
                                          logger |-> m.logger, thread |-> trim(m.thread),
                                          message |-> m.message,
                                          serviceId |-> ServiceId] >>,
                     !.heap = h3, !.stackTraceBuffer = Len(h1),
                     !.rawLinesBuffer = Len(h2), !.contextLinesBuffer = Len(h3),
                     !.openedAt = Len(p.input)]
  ELSE p

\* lines 60-73
OpenError(p, trimmed, m) ==
  IF m.level = "ERROR"
  THEN LET h1 == Append(p.heap, <<>>)
           h2 == Append(h1, <<trimmed>>)
           h3 == Append(h2, <<>>)
       IN  [p EXCEPT !.errorCounter = @ + 1,
                     !.currentError = << [id |-> ErrorId(p.errorCounter + 1),
                                          timestamp |-> m.timestamp, level |-> "ERROR",
                                          logger |-> m.logger, thread |-> trim(m.thread),
                                          message |-> m.message,
                                          serviceId |-> ServiceId] >>,
                     !.heap = h3, !.stackTraceBuffer = Len(h1),
                     !.rawLinesBuffer = Len(h2), !.contextLinesBuffer = Len(h3),
                     !.openedAt = Len(p.input)]
  ELSE p

\* a header branch without the flush of line 45
HeaderBranch_noFlush(p, trimmed, m) ==
  OpenError(EmitLog(p, trimmed, m), trimmed, m)

\* a header branch that emits the log event before it flushes
HeaderBranch_logFirst(p, trimmed, m) ==
  OpenError(flushCurrentError(EmitLog(p, trimmed, m), Len(p.input) - 1), trimmed, m)

\* lines 43-73
HeaderBranch(p, trimmed, m) ==
  OpenError(EmitLog(flushCurrentError(p, Len(p.input) - 1), trimmed, m), trimmed, m)

\* a continuation branch that takes every line for a frame
ContinuationBranch_allFrames(p, trimmed) ==
  Push(Push(p, p.stackTraceBuffer, trimmed), p.rawLinesBuffer, trimmed)

\* lines 74-91
ContinuationBranch(p, trimmed) ==
  IF IsTraceLine(trimmed)
  THEN Push(Push(p, p.stackTraceBuffer, trimmed), p.rawLinesBuffer, trimmed)
  ELSE Push(Push(p, p.contextLinesBuffer, trimmed), p.rawLinesBuffer, trimmed)

\* a parseLine that collects continuation lines with no record open
parseLine_keepOrphans(p, raw) ==
  LET trimmed == trimEnd(raw)
      logMatch == MatchLogLine(trimmed)
  IN  IF trimmed = <<>> THEN BlankBranch(p)
      ELSE IF logMatch.ok THEN HeaderBranch(p, trimmed, logMatch)
      ELSE ContinuationBranch(p, trimmed)

\* lines 29-92; p.input already holds raw
parseLine(p, raw) ==
  LET trimmed == trimEnd(raw)
      logMatch == MatchLogLine(trimmed)
  IN  IF trimmed = <<>> THEN BlankBranch(p)
      ELSE IF logMatch.ok THEN HeaderBranch(p, trimmed, logMatch)
      ELSE IF p.currentError # <<>> THEN ContinuationBranch(p, trimmed)
      ELSE p

\* lines 94-96
flush(p) == flushCurrentError(p, Len(p.input))

\* =========================================================== LocalAnalyzer
\* The rule table, in declaration order.  A pattern is the list of the
\* alternatives of its regular expression (all are /.../i); confidence is in
\* hundredths; the non-ASCII part of a title is left out; description and
\* suggestion are fixed texts of the rule and are not modelled.
ERROR_PATTERNS == <<
  [name |-> "NullPointerException",
   alternatives |-> <<"NullPointerException">>,
   title |-> "Null Pointer Exception", confidence |-> 85],
  [name |-> "ClassNotFoundException",
   alternatives |-> <<"ClassNotFoundException", "NoClassDefFoundError">>,
   title |-> "Class Not Found", confidence |-> 80],
  [name |-> "BeanCreationException",
   alternatives |-> <<"BeanCreationException", "BeanInstantiationException">>,
   title |-> "Bean Creation Failed", confidence |-> 80],
  [name |-> "NoSuchBeanDefinitionException",
   alternatives |-> <<"NoSuchBeanDefinitionException">>,
   title |-> "Bean Not Found", confidence |-> 85],
  [name |-> "PortAlreadyInUse",
   alternatives |-> <<"Address already in use", "BindException.*\\d{4,5}",
                      "PortInUseException">>,
   title |-> "Port Already In Use", confidence |-> 95],
  [name |-> "BadSqlGrammarException",
   alternatives |-> <<"BadSqlGrammarException", "bad SQL grammar", "### SQL:",
                      "### Cause:", "StatementCallback", "PreparedStatementCallback",
                      "CUBRIDException", "Syntax error.*unexpected">>,
   title |-> "SQL Grammar Error (MyBatis/JPA)", confidence |-> 88],
  [name |-> "DataAccessException",
   alternatives |-> <<"DataAccessException", "SQLException", "JDBCConnectionException",
                      "CannotCreateTransactionException", "MyBatisSystemException",
                      "PersistenceException">>,
   title |-> "Database Access Error", confidence |-> 75],
  [name |-> "HttpMessageNotReadableException",
   alternatives |-> <<"HttpMessageNotReadableException", "JsonParseException",
                      "JsonMappingException">>,
   title |-> "Invalid Request Body", confidence |-> 90],
  [name |-> "MethodArgumentNotValidException",
   alternatives |-> <<"MethodArgumentNotValidException",
                      "ConstraintViolationException", "Validation failed for argument",
                      "rejected value", "Field error in object">>,
   title |-> "Validation Failed", confidence |-> 90],
  [name |-> "OutOfMemoryError",
   alternatives |-> <<"OutOfMemoryError", "Java heap space", "GC overhead limit">>,
   title |-> "Out of Memory", confidence |-> 80],
  [name |-> "StackOverflowError",
   alternatives |-> <<"StackOverflowError">>,
   title |-> "Stack Overflow", confidence |-> 85],
  [name |-> "HttpRequestMethodNotSupportedException",
   alternatives |-> <<"HttpRequestMethodNotSupportedException",
                      "Request method .* not supported">>,
   title |-> "HTTP Method Not Supported", confidence |-> 95],
  [name |-> "NoHandlerFoundException",
   alternatives |-> <<"NoHandlerFoundException", "No handler found for",
                      "NoResourceFoundException">>,
   title |-> "404 - Handler Not Found", confidence |-> 92],
  [name |-> "AccessDeniedException",
   alternatives |-> <<"AccessDeniedException", "access is denied", "Access Denied">>,
   title |-> "Access Denied", confidence |-> 90],
  [name |-> "AuthenticationException",
   alternatives |-> <<"AuthenticationException", "InsufficientAuthenticationException",
                      "BadCredentialsException", "UsernameNotFoundException",
                      "JwtException", "ExpiredJwtException", "SignatureException">>,
   title |-> "Authentication Failed", confidence |-> 88],
  [name |-> "TransactionRollback",
   alternatives |-> <<"TransactionSystemException", "RollbackException",
                      "UnexpectedRollbackException", "transaction.*rolled back",
                      "rollback.*exception">>,
   title |-> "Transaction Rollback", confidence |-> 82],
  [name |-> "DuplicateKeyException",
   alternatives |-> <<"DuplicateKeyException", "Duplicate entry",
                      "duplicate key value", "unique constraint", "ORA-00001",
                      "ERROR 1062">>,
   title |-> "Duplicate Key / Unique Constraint Violation", confidence |-> 90],
  [name |-> "LazyInitializationException",
   alternatives |-> <<"LazyInitializationException", "could not initialize proxy",
                      "failed to lazily initialize">>,
   title |-> "Lazy Initialization Exception (JPA)", confidence |-> 93],
  [name |-> "TimeoutException",
   alternatives |-> <<"TimeoutException", "Read timed out", "Connection timed out",
                      "SocketTimeoutException", "ConnectTimeoutException",
                      "gateway timeout">>,
   title |-> "Timeout", confidence |-> 83],
  [name |-> "MissingServletRequestParameterException",
   alternatives |-> <<"MissingServletRequestParameterException",
                      "MissingPathVariableException", "Required request parameter",
                      "Required URI template variable">>,
   title |-> "Required Request Parameter Missing", confidence |-> 92],
  [name |-> "MultipartException",
   alternatives |-> <<"MultipartException", "MaxUploadSizeExceededException",
                      "FileSizeLimitExceededException", "multipart.*exceeded">>,
   title |-> "File Upload Size Exceeded", confidence |-> 92],
  [name |-> "UnsatisfiedDependencyException",
   alternatives |-> <<"UnsatisfiedDependencyException",
                      "unsatisfied dependency expressed through",
                      "parameter \\d+ of constructor in">>,
   title |-> "Unsatisfied Dependency", confidence |-> 90],
  [name |-> "CircularDependencyException",
   alternatives |-> <<"The dependencies of some of the beans in the application context form a cycle",
                      "circular dependency", "circular reference">>,
   title |-> "Circular Dependency", confidence |-> 95],
  [name |-> "PropertyNotFoundException",
   alternatives |-> <<"Could not resolve placeholder",
                      "IllegalArgumentException.*\\$\\{", "No such property",
                      "Could not bind properties", "Binding to target .* failed",
                      "Failed to bind properties">>,
   title |-> "Property / Configuration Binding", confidence |-> 88],
  [name |-> "ConnectException",
   alternatives |-> <<"ConnectException", "Connection refused", "ECONNREFUSED",
                      "Failed to connect", "Unable to connect to", "connect timed out",
                      "Cannot connect to">>,
   title |-> "Connection Refused", confidence |-> 87],
  [name |-> "EntityNotFoundException",
   alternatives |-> <<"EntityNotFoundException",
                      "javax\\.persistence\\.EntityNotFoundException",
                      "jakarta\\.persistence\\.EntityNotFoundException",
                      "No entity found for query", "Unable to find .* with id">>,
   title |-> "Entity Not Found (JPA)", confidence |-> 90],
  [name |-> "OptimisticLockingException",
   alternatives |-> <<"OptimisticLockingFailureException",
                      "ObjectOptimisticLockingFailureException",
                      "StaleObjectStateException", "OptimisticLock",
                      "Row was updated or deleted by another transaction">>,
   title |-> "Optimistic Locking", confidence |-> 92]
>>

\* Which alternatives occur (case-insensitively) inside a token of the texts
\* below.  The texts are chosen so that no alternative matches across tokens.
Lexicon ==
  [t \in {"java.lang.NullPointerException", "Address already in use",
          "java.sql.SQLException",
          "org.springframework.jdbc.BadSqlGrammarException",
          "Transaction rolled back",
          "org.springframework.transaction.UnexpectedRollbackException"} |->
     CASE t = "java.lang.NullPointerException" -> {"NullPointerException"}
       [] t = "Address already in use" -> {"Address already in use"}
       [] t = "java.sql.SQLException" -> {"SQLException"}
       [] t = "org.springframework.jdbc.BadSqlGrammarException" ->
            {"BadSqlGrammarException"}
       [] t = "Transaction rolled back" -> {"transaction.*rolled back"}
       [] t = "org.springframework.transaction.UnexpectedRollbackException" ->
            {"RollbackException", "UnexpectedRollbackException"}]
Hits(t) == IF t \in DOMAIN Lexicon THEN Lexicon[t] ELSE {}

\* Array.prototype.join('\n')
RECURSIVE JoinNewline(_)
JoinNewline(ls) ==
  IF ls = <<>> THEN <<>>
  ELSE IF Len(ls) = 1 THEN ls[1]
  ELSE ls[1] \o <<"\n">> \o JoinNewline(Tail(ls))

\* [error.message, ...error.stackTrace].join('\n')
FullText(error) == JoinNewline(<<error.message>> \o error.stackTrace)

\* pattern.test(fullText)
TestPattern(pattern, fullText) ==
  \E k \in 1..Len(fullText) :
    \E a \in 1..Len(pattern.alternatives) :
      pattern.alternatives[a] \in Hits(fullText[k])

\* a result whose confidence depends on when analyze was called
AnalysisResult_aging(pattern, error, now) ==
  [errorId |-> error.id, serviceId |-> error.serviceId, analysisType |-> "local",
   title |-> pattern.title, confidence |-> pattern.confidence - now,
   timestamp |-> now, errorBlock |-> error]

\* the object analyze returns for a matching rule
AnalysisResult(pattern, error, now) ==
  [errorId |-> error.id, serviceId |-> error.serviceId, analysisType |-> "local",
   title |-> pattern.title, confidence |-> pattern.confidence,
   timestamp |-> now, errorBlock |-> error]

\* the loop of analyze run from the end of the table: the last match wins
RECURSIVE AnalyzeFrom_lastWins(_, _, _)
AnalyzeFrom_lastWins(i, error, now) ==
  LET j == Len(ERROR_PATTERNS) + 1 - i
  IN  IF i > Len(ERROR_PATTERNS) THEN <<>>
      ELSE IF TestPattern(ERROR_PATTERNS[j], FullText(error))
           THEN <<AnalysisResult(ERROR_PATTERNS[j], error, now)>>
           ELSE AnalyzeFrom_lastWins(i + 1, error, now)

\* for (const pattern of ERROR_PATTERNS) from rule i on; <<>> is null
RECURSIVE AnalyzeFrom(_, _, _)
AnalyzeFrom(i, error, now) ==
  IF i > Len(ERROR_PATTERNS) THEN <<>>
  ELSE IF TestPattern(ERROR_PATTERNS[i], FullText(error))
       THEN <<AnalysisResult(ERROR_PATTERNS[i], error, now)>>
       ELSE AnalyzeFrom(i + 1, error, now)

\* LocalAnalyzer.analyze; now is the value of new Date()
analyze(error, now) == AnalyzeFrom(1, error, now)

\* a canHandle that reads the message only
canHandle_messageOnly(error) ==
  \E i \in 1..Len(ERROR_PATTERNS) :
    TestPattern(ERROR_PATTERNS[i], error.message)

\* LocalAnalyzer.canHandle
canHandle(error) ==
  \E i \in 1..Len(ERROR_PATTERNS) : TestPattern(ERROR_PATTERNS[i], FullText(error))

\* ----------------------------------------------------- classification inputs
MaxCalls == 2
MaxClock == 2
ClsMessages ==
  {<<"boom">>,
   <<"java.lang.NullPointerException", ":", " ", "boom">>,
   <<"Web server failed to start.", " ", "Address already in use">>}
ClsStackTraces ==
  {<<>>,
   <<LineCausedBy>>,
   <<trimEnd(LineFrame), <<"Caused by:", " ", "java.lang.NullPointerException">> >>,
   << <<"org.springframework.jdbc.BadSqlGrammarException", ":", " ", "boom">>,
      LineCausedBy>>}
\* finished ErrorBlocks, their arrays read out of the heap
ClsErrors ==
  {[id |-> ErrorId(1), serviceId |-> ServiceId, message |-> m, stackTrace |-> st] :
     m \in ClsMessages, st \in ClsStackTraces}

VARIABLES
  analyses,   \* the calls made on the analyzer so far: [error, at, can, result]
  clock       \* the wall clock, in ticks

analyzerVars == <<analyses, clock>>

AnalyzerInit == analyses = <<>> /\ clock = 0

\* the length of one tick of the clock, in milliseconds
TickMs == 30000
\* Date.now() / new Date()
DateNow(c) == c * TickMs

\* one call of localAnalyzer.canHandle(error) and one of
\* localAnalyzer.analyze(error) on the same record
Analyze ==
  /\ Len(analyses) < MaxCalls
  /\ \E error \in ClsErrors :
       analyses' = Append(analyses, [error |-> error, at |-> DateNow(clock),
                                     can |-> canHandle(error),
                                     result |-> analyze(error, DateNow(clock))])
  /\ UNCHANGED clock

\* time passes
Tick ==
  /\ clock < MaxClock
  /\ clock' = clock + 1
  /\ UNCHANGED analyses

\* ======================================================== SpringBootService
VARIABLES
  _errors,     \* the ErrorBlocks detected so far
  _analyses,   \* the AnalysisResults so far, local and AI
  published    \* events the service emitted: 'error-detected', 'analysis-result'

serviceVars == <<_errors, _analyses, published>>

Service == [_errors |-> _errors, _analyses |-> _analyses, published |-> published]

\* the field initialisers of SpringBootService
NewService == [_errors |-> <<>>, _analyses |-> <<>>, published |-> <<>>]

\* an ErrorBlock as its readers see it: the arrays read out of the heap
Deref(h, errorBlock) ==
  [errorBlock EXCEPT !.stackTrace = h[@], !.rawLines = h[@]]

\* this._errors.push(errorBlock); this.emit('error-detected', errorBlock)
RecordError(s, errorBlock) ==
  [s EXCEPT !._errors = Append(@, errorBlock),
            !.published = Append(@, [type |-> "error-detected",
                                     payload |-> errorBlock])]

\* a store that keeps the latest result only
RecordAnalysis_latestOnly(s, result) ==
  [s EXCEPT !._analyses = <<result>>,
            !.published = Append(@, [type |-> "analysis-result",
                                     payload |-> result])]

\* this._analyses.push(result); this.emit('analysis-result', result)
RecordAnalysis(s, result) ==
  [s EXCEPT !._analyses = Append(@, result),
            !.published = Append(@, [type |-> "analysis-result",
                                     payload |-> result])]

\* a listener that records the error and leaves the local analysis out
OnError_noAnalysis(s, h, errorBlock, now) == RecordError(s, errorBlock)

\* the parser's 'error' listener; now is the value of new Date()
OnError(s, h, errorBlock, now) ==
  LET s1 == RecordError(s, errorBlock)
      error == Deref(h, errorBlock)
      result == analyze(error, now)
  IN  IF canHandle(error) /\ result # <<>>
      THEN RecordAnalysis(s1, result[1])
      ELSE s1

\* the listener run on the 'error' events a parser call emitted, in order
RECURSIVE OnErrors(_, _, _, _)
OnErrors(s, h, events, now) ==
  IF events = <<>> THEN s
  ELSE OnErrors(IF Head(events).type = "error"
                THEN OnError(s, h, Head(events).payload, now)
                ELSE s,
                h, Tail(events), now)

\* the events p1 emitted beyond those of p0
NewEvents(p0, p1) == SubSeq(p1.emitted, Len(p0.emitted) + 1, Len(p1.emitted))

\* ========================================================== ClaudeAnalyzer
\* (class ClaudeAnalyzer, LogParser.ts lines 148-284)
OneMinute == 60000
DefaultMaxRequests == 10
DefaultConfidence == 70

VARIABLES
  client,                \* <<>> (null) or <<apiKey>>: the Anthropic client
  maxRequestsPerMinute,
  requestTimestamps,     \* Date.now() of the recorded requests
  requests,              \* instrumentation: the calls of requestAiAnalysis
  remote,                \* instrumentation: the calls of client.messages.create
  lastApiKey             \* instrumentation: <<>> or <<the key of the last configure>>

gatewayVars == <<client, maxRequestsPerMinute, requestTimestamps, requests, remote,
                 lastApiKey>>

Gateway ==
  [client |-> client, maxRequestsPerMinute |-> maxRequestsPerMinute,
   requestTimestamps |-> requestTimestamps]

\* the field initialisers of ClaudeAnalyzer
NewGateway ==
  [client |-> <<>>, maxRequestsPerMinute |-> DefaultMaxRequests,
   requestTimestamps |-> <<>>]

\* configure(apiKey, model, maxRequestsPerMinute); the model name is not modelled
configure(g, apiKey, max) ==
  [g EXCEPT !.client = IF apiKey # "" THEN <<apiKey>> ELSE @,
            !.maxRequestsPerMinute = max]

\* an isConfigured that answers true whatever the client
isConfigured_always(g) == TRUE

isConfigured(g) == g.client # <<>>

\* a canMakeRequest that keeps every timestamp, however old
canMakeRequest_noExpiry(g, now) ==
  [g |-> g, ok |-> Len(g.requestTimestamps) < g.maxRequestsPerMinute]

\* canMakeRequest: drops the timestamps of a minute ago and older, then compares
canMakeRequest(g, now) ==
  LET oneMinuteAgo == now - OneMinute
      kept == SelectSeq(g.requestTimestamps, LAMBDA t : t > oneMinuteAgo)
  IN  [g |-> [g EXCEPT !.requestTimestamps = kept],
       ok |-> Len(kept) < g.maxRequestsPerMinute]

\* a recordRequest that records nothing (the timestamp is left for later)
recordRequest_skip(g, now) == g

recordRequest(g, now) == [g EXCEPT !.requestTimestamps = Append(@, now)]

\* -------------------------------------------------------------- the results
\* stands for the title 'AI <Korean: analysis unavailable>' of the source
TitleUnavailable == "AI unavailable"
TitleRateLimited == "Rate Limited"
TitleFailed == "AI Analysis Failed"
TitleDefault == "AI Analysis"

AiResult(error, title, description, suggestion, confidence, now) ==
  [errorId |-> error.id, serviceId |-> error.serviceId, analysisType |-> "ai",
   title |-> title, description |-> description, suggestion |-> suggestion,
   confidence |-> confidence, timestamp |-> now, errorBlock |-> error]

\* requestAiAnalysis, lines 504-514
UnavailableResult(error, now) ==
  AiResult(error, TitleUnavailable, "no API key", "enter the API key", 0, now)

\* analyze, lines 183-193
RateLimitedResult(error, now) ==
  AiResult(error, TitleRateLimited, "over the requests per minute", "retry later",
           0, now)

\* analyze, lines 269-281: the description carries errorMessage
FailedResult(error, errorMessage, now) ==
  AiResult(error, TitleFailed, errorMessage, "check key, network, quota", 0, now)

\* ------------------------------------------------------- the remote replies
\* A reply text is a sequence of tokens: the fence marker, the word json, a
\* line break, a brace, one token per member of the JSON object.
\* the token of three backquotes
Fence == "<fence>"

\* the members the replies below are made of: key and value of each
JsonMembers ==
  [t \in {"\"title\":\"Null reference\"", "\"description\":\"A null was read\"",
          "\"suggestion\":\"Add a null check\"", "\"confidence\":0.9",
          "\"confidence\":\"high\"", "\"answer\":\"It is a bug\"",
          "\"confidence\":95"} |->
     CASE t = "\"title\":\"Null reference\"" ->
            [key |-> "title", type |-> "string", s |-> "Null reference", n |-> 0]
       [] t = "\"description\":\"A null was read\"" ->
            [key |-> "description", type |-> "string", s |-> "A null was read", n |-> 0]
       [] t = "\"suggestion\":\"Add a null check\"" ->
            [key |-> "suggestion", type |-> "string", s |-> "Add a null check", n |-> 0]
       [] t = "\"confidence\":0.9" ->
            [key |-> "confidence", type |-> "number", s |-> "", n |-> 90]
       [] t = "\"confidence\":95" ->
            [key |-> "confidence", type |-> "number", s |-> "", n |-> 9500]
       [] t = "\"confidence\":\"high\"" ->
            [key |-> "confidence", type |-> "string", s |-> "high", n |-> 0]
       [] t = "\"answer\":\"It is a bug\"" ->
            [key |-> "answer", type |-> "string", s |-> "It is a bug", n |-> 0]]

\* jsonText.match(/^<fence>(?:json)?\s*\n?([\s\S]*?)\n?\s*<fence>$/), then
\* codeBlockMatch[1].trim(); text is already trimmed
StripFence(text) ==
  IF Len(text) >= 2 /\ text[1] = Fence /\ text[Len(text)] = Fence
  THEN LET inner == SubSeq(text, 2, Len(text) - 1)
       IN  trim(IF At(inner, 1) = "json" THEN Tail(inner) ELSE inner)
  ELSE text

\* JSON.parse: null, or an object of known members; anything else is a
\* SyntaxError.  An object is the function from its keys to their values.
JSON_parse(text) ==
  LET body == SelectSeq(SubSeq(text, 2, Len(text) - 1), LAMBDA t : t \notin WS)
      keys == {JsonMembers[body[k]].key : k \in 1..Len(body)}
      lastOf(key) == CHOOSE k \in 1..Len(body) :
                       /\ JsonMembers[body[k]].key = key
                       /\ \A j \in (k + 1)..Len(body) : JsonMembers[body[j]].key # key
  IN  IF text = <<"null">> THEN [ok |-> TRUE, isNull |-> TRUE, members |-> <<>>]
      ELSE IF /\ Len(text) >= 2
              /\ text[1] = "{"
              /\ text[Len(text)] = "}"
              /\ \A k \in 2..(Len(text) - 1) :
                   text[k] \in WS \/ text[k] \in DOMAIN JsonMembers
           THEN [ok |-> TRUE, isNull |-> FALSE,
                 members |-> [key \in keys |-> JsonMembers[body[lastOf(key)]]]]
           ELSE [ok |-> FALSE, isNull |-> FALSE, members |-> <<>>]

\* parsed.key || fallback, for the keys whose values are strings here
StringOr(members, key, fallback) ==
  IF key \in DOMAIN members /\ members[key].s # "" THEN members[key].s ELSE fallback

\* typeof parsed.confidence === 'number' ? parsed.confidence : 0.7
ConfidenceOf(members) ==
  IF "confidence" \in DOMAIN members /\ members["confidence"].type = "number"
  THEN members["confidence"].n
  ELSE DefaultConfidence

\* analyze, lines 257-268; codeContexts is not modelled
SuccessResult(error, members, now) ==
  AiResult(error, StringOr(members, "title", TitleDefault),
           StringOr(members, "description", ""),
           StringOr(members, "suggestion", ""), ConfidenceOf(members), now)

\* the messages of the errors the catch block of analyze can see
SyntaxErrorMessage == "Unexpected token"
NullErrorMessage == "Cannot read properties of null"
UndefinedErrorMessage == "Cannot read properties of undefined"
ConnectionErrorMessage == "Connection error."

\* analyze from the return of client.messages.create on, lines 230-282:
\* <<>> is null
HandleReply(error, reply, now) ==
  IF reply.kind = "rejected" THEN <<FailedResult(error, reply.message, now)>>
  ELSE IF reply.content = <<>>
       THEN <<FailedResult(error, UndefinedErrorMessage, now)>>
  ELSE LET content == reply.content[1]
           parsed == JSON_parse(StripFence(trim(content.text)))
       IN  IF content.type # "text" THEN <<>>
           ELSE IF ~parsed.ok THEN <<FailedResult(error, SyntaxErrorMessage, now)>>
           ELSE IF parsed.isNull THEN <<FailedResult(error, NullErrorMessage, now)>>
           ELSE <<SuccessResult(error, parsed.members, now)>>

\* an analyze that records the request before it looks at the window
analyzeBegin_recordFirst(g, error, now) ==
  IF g.client = <<>> THEN [g |-> g, await |-> FALSE, result |-> <<>>]
  ELSE LET c == canMakeRequest(g, now)
       IN  IF ~c.ok
           THEN [g |-> recordRequest(c.g, now), await |-> FALSE,
                 result |-> <<RateLimitedResult(error, now)>>]
           ELSE [g |-> recordRequest(c.g, now), await |-> TRUE, result |-> <<>>]

\* the synchronous part of analyze, lines 177-197 and on to the await of
\* line 230: null, the rate-limited result, or the remote call is made
analyzeBegin(g, error, now) ==
  IF g.client = <<>> THEN [g |-> g, await |-> FALSE, result |-> <<>>]
  ELSE LET c == canMakeRequest(g, now)
       IN  IF ~c.ok
           THEN [g |-> c.g, await |-> FALSE,
                 result |-> <<RateLimitedResult(error, now)>>]
           ELSE [g |-> recordRequest(c.g, now), await |-> TRUE, result |-> <<>>]

\* --------------------------------------------------------- gateway inputs
WellFormed ==
  <<"{", "\"title\":\"Null reference\"", "\"description\":\"A null was read\"",
    "\"suggestion\":\"Add a null check\"", "\"confidence\":0.9", "}">>
TextReply(text) ==
  [kind |-> "response", message |-> "",
   content |-> <<[type |-> "text", text |-> text]>>]
ReplyPlain == TextReply(WellFormed)
ReplyFenced == TextReply(<<Fence, "json", "\n">> \o WellFormed \o <<"\n", Fence>>)
ReplyProse == TextReply(<<"Sorry,", " ", "I cannot analyze this.">>)
ReplyEmptyObject == TextReply(<<"{", "}">>)
ReplyNull == TextReply(<<"null">>)
ReplyNoText ==
  [kind |-> "response", message |-> "",
   content |-> <<[type |-> "tool_use", text |-> <<>>]>>]
ReplyRejected ==
  [kind |-> "rejected", message |-> ConnectionErrorMessage, content |-> <<>>]
Replies == {ReplyPlain, ReplyFenced, ReplyProse, ReplyEmptyObject, ReplyNull,
            ReplyNoText, ReplyRejected}

\* the replies while lines keep arriving
BusyReplies == {ReplyPlain, ReplyRejected}

\* a reply that gives its confidence in percent
ReplyPercent ==
  TextReply(<<"{", "\"title\":\"Null reference\"", "\"description\":\"A null was read\"",
              "\"suggestion\":\"Add a null check\"", "\"confidence\":95", "}">>)
\* the replies that carry a confidence of their own
ScoredReplies == {ReplyPlain, ReplyFenced, ReplyPercent}

ApiKeys == {"", "sk-key"}
MaxRequests == 2
Ceilings == {1}

\* ----------------------------------------------------------------- actions
SetParser(p) ==
  /\ currentError' = p.currentError
  /\ stackTraceBuffer' = p.stackTraceBuffer
  /\ rawLinesBuffer' = p.rawLinesBuffer
  /\ contextLinesBuffer' = p.contextLinesBuffer
  /\ errorCounter' = p.errorCounter
  /\ heap' = p.heap
  /\ emitted' = p.emitted
  /\ input' = p.input
  /\ openedAt' = p.openedAt
  /\ suppressed' = p.suppressed

ParserInit ==
  /\ currentError = NewParser.currentError
  /\ stackTraceBuffer = NewParser.stackTraceBuffer
  /\ rawLinesBuffer = NewParser.rawLinesBuffer
  /\ contextLinesBuffer = NewParser.contextLinesBuffer
  /\ errorCounter = NewParser.errorCounter
  /\ heap = NewParser.heap
  /\ emitted = NewParser.emitted
  /\ input = NewParser.input
  /\ openedAt = NewParser.openedAt
  /\ suppressed = NewParser.suppressed

SetService(s) ==
  /\ _errors' = s._errors
  /\ _analyses' = s._analyses
  /\ published' = s.published

ServiceInit ==
  /\ _errors = NewService._errors
  /\ _analyses = NewService._analyses
  /\ published = NewService.published

SetGateway(g) ==
  /\ client' = g.client
  /\ maxRequestsPerMinute' = g.maxRequestsPerMinute
  /\ requestTimestamps' = g.requestTimestamps

GatewayInit ==
  /\ client = NewGateway.client
  /\ maxRequestsPerMinute = NewGateway.maxRequestsPerMinute
  /\ requestTimestamps = NewGateway.requestTimestamps
  /\ requests = <<>>
  /\ remote = <<>>
  /\ lastApiKey = <<>>

\* a parser call made by the service: the 'error' listener runs inside it
Deliver(p) ==
  /\ SetParser(p)
  /\ SetService(OnErrors(Service, p.heap, NewEvents(Parser, p), DateNow(clock)))

\* the line listener on raw: logParser.parseLine(line)
OnLine(raw) == Deliver(parseLine([Parser EXCEPT !.input = Append(@, raw)], raw))

\* a line arrives on stdout or stderr
ParseLine ==
  /\ Len(input) < MaxLines
  /\ \E raw \in Lines : OnLine(raw)

\* a line holding escaped line breaks arrives on stdout or stderr
ParseEscapedLine ==
  /\ Len(input) < MaxLines
  /\ \E raw \in EscapedLines : OnLine(raw)

\* stop() / the exit handler: logParser.flush()
Flush == Deliver(flush(Parser))

\* what the monitored process prints while the gateway is exercised
Outputs == {<<LineErrBoom, LineCausedBy>>}
\* the same with a second error, printed while analyses are outstanding
BusyOutputs == {<<LineErrBoom, LineErrBoom, LineCausedBy>>}

\* the next line of one of outs arrives
IngestFrom(outs) ==
  \E raw \in Lines :
    /\ \E out \in outs :
         /\ Len(input) < Len(out)
         /\ SubSeq(out, 1, Len(input) + 1) = Append(input, raw)
    /\ OnLine(raw)

IngestLine == IngestFrom(Outputs)
IngestBusyLine == IngestFrom(BusyOutputs)

\* SpringBootService.configure
ConfigureFrom(keys, ceilings) ==
  /\ \E apiKey \in keys, max \in ceilings :
       /\ SetGateway(configure(Gateway, apiKey, max))
       /\ lastApiKey' = <<apiKey>>
  /\ UNCHANGED <<requests, remote>>

Configure == ConfigureFrom(ApiKeys, Ceilings)

\* the remote calls made less than a minute before now
InWindow(calls, now) == {c \in 1..Len(calls) : now - calls[c].at < OneMinute}

\* requestAiAnalysis(error) up to its await: the unavailable result, or
\* analyze up to its own await.  A result analyze returns without awaiting
\* is handled before any other event.  codeContextExtractor.extract only
\* feeds the prompt and is not modelled.
RequestAiAnalysisUpTo(max) ==
  /\ Len(requests) < max
  /\ UNCHANGED lastApiKey
  /\ \E k \in 1..Len(_errors) :
       LET error == _errors[k]
           now == DateNow(clock)
           request == [error |-> error, at |-> now,
                       configured |-> client # <<>>,
                       ceiling |-> maxRequestsPerMinute,
                       inWindow |-> Cardinality(InWindow(remote, now)),
                       publishedBefore |-> Len(published),
                       called |-> FALSE, pc |-> "done", reply |-> <<>>,
                       outcome |-> <<>>]
           begun == analyzeBegin(Gateway, error, now)
       IN  IF ~isConfigured(Gateway)
           THEN /\ SetService(RecordAnalysis(Service, UnavailableResult(error, now)))
                /\ requests' = Append(requests,
                     [request EXCEPT !.outcome = <<UnavailableResult(error, now)>>])
                /\ UNCHANGED <<client, maxRequestsPerMinute, requestTimestamps, remote>>
           ELSE /\ SetGateway(begun.g)
                /\ IF begun.await
                   THEN /\ remote' = Append(remote,
                             [errorId |-> error.id, at |-> now,
                              ceiling |-> maxRequestsPerMinute])
                        /\ requests' = Append(requests,
                             [request EXCEPT !.called = TRUE, !.pc = "awaiting"])
                        /\ UNCHANGED serviceVars
                   ELSE /\ remote' = remote
                        /\ requests' = Append(requests,
                             [request EXCEPT !.outcome = begun.result])
                        /\ IF begun.result # <<>>
                           THEN SetService(RecordAnalysis(Service, begun.result[1]))
                           ELSE UNCHANGED serviceVars

RequestAiAnalysis == RequestAiAnalysisUpTo(MaxRequests)

\* client.messages.create settles with one of replies and analyze, then
\* requestAiAnalysis, resume
RemoteReplyFrom(replies) ==
  \E i \in 1..Len(requests) :
    /\ requests[i].pc = "awaiting"
    /\ \E reply \in replies :
         LET result == HandleReply(requests[i].error, reply, DateNow(clock))
         IN  /\ requests' = [requests EXCEPT ![i].pc = "done",
                                             ![i].reply = <<reply>>,
                                             ![i].outcome = result]
             /\ IF result # <<>>
                THEN SetService(RecordAnalysis(Service, result[1]))
                ELSE UNCHANGED serviceVars
    /\ UNCHANGED <<client, maxRequestsPerMinute, requestTimestamps, remote, lastApiKey>>

RemoteReply == RemoteReplyFrom(Replies)
RemoteReplyBusy == RemoteReplyFrom(BusyReplies)
RemoteReplyScored == RemoteReplyFrom(ScoredReplies)

\* ====================================================== CodeContextExtractor
\* CodeContextExtractor.ts is not among the sources: extract is modelled from
\* its description (every stack-trace line is parsed as a call frame; frames
\* of framework packages, repeated (class, line) pairs and frames whose file
\* cannot be read are skipped; at most three windows are returned).
MaxFrames == 5
MaxWindows == 3

\* a call frame: at <package>.<Class>.<method>(<File>:<line>); the qualified
\* class name is the sequence of its segments
FrameLine(class, method, file, line) ==
  <<"\t", "at", " ", class, ".", method, "(", file, ":", line, ")">>
FrameUser1 ==
  FrameLine(<<"com", "example", "UserService">>, "findById", "UserService.java", 42)
FrameUser2 ==
  FrameLine(<<"com", "example", "OrderService">>, "place", "OrderService.java", 10)
FrameUser3 ==
  FrameLine(<<"com", "example", "UserService">>, "load", "UserService.java", 57)
FrameUser4 ==
  FrameLine(<<"com", "example", "web", "UserController">>, "get", "UserController.kt", 7)
FrameSpring ==
  FrameLine(<<"org", "springframework", "web", "servlet", "DispatcherServlet">>,
            "doDispatch", "DispatcherServlet.java", 1040)
FrameJava ==
  FrameLine(<<"java", "lang", "Thread">>, "run", "Thread.java", 833)
\* a class of the application whose source is not in the workspace
FrameGenerated ==
  FrameLine(<<"com", "example", "UserService$$Proxy">>, "findById", "<generated>", 1)
FrameLines == {FrameUser1, FrameUser2, FrameUser3, FrameUser4, FrameSpring, FrameJava,
               FrameGenerated, LineCausedBy}

\* the packages whose frames are left out
DeniedPrefixes ==
  {<<"org", "springframework">>, <<"org", "hibernate">>, <<"java">>, <<"jakarta">>,
   <<"sun">>}
\* the files of the workspace that can be found and read
ReadableFiles == {"UserService.java", "OrderService.java", "UserController.kt"}

ParseFrame(t) ==
  IF /\ Len(t) = 11 /\ t[1] \in WS /\ t[2] = "at" /\ t[3] \in WS /\ t[5] = "."
     /\ t[7] = "(" /\ t[9] = ":" /\ t[11] = ")"
  THEN [ok |-> TRUE, className |-> t[4], methodName |-> t[6], fileName |-> t[8],
        lineNumber |-> t[10]]
  ELSE [ok |-> FALSE]

IsDenied(className) ==
  \E prefix \in DeniedPrefixes :
    Len(prefix) < Len(className) /\ SubSeq(className, 1, Len(prefix)) = prefix

\* an extraction without the limit on the number of windows
RECURSIVE ExtractFrom_noCap(_, _, _)
ExtractFrom_noCap(lines, seen, windows) ==
  IF lines = <<>> THEN windows
  ELSE LET f == ParseFrame(Head(lines))
       IN  IF ~f.ok THEN ExtractFrom_noCap(Tail(lines), seen, windows)
           ELSE IF IsDenied(f.className) \/ <<f.className, f.lineNumber>> \in seen
                THEN ExtractFrom_noCap(Tail(lines), seen, windows)
           ELSE ExtractFrom_noCap(Tail(lines), seen \cup {<<f.className, f.lineNumber>>},
                  IF f.fileName \in ReadableFiles THEN Append(windows, f) ELSE windows)

RECURSIVE ExtractFrom(_, _, _)
ExtractFrom(lines, seen, windows) ==
  IF lines = <<>> \/ Len(windows) >= MaxWindows THEN windows
  ELSE LET f == ParseFrame(Head(lines))
       IN  IF ~f.ok THEN ExtractFrom(Tail(lines), seen, windows)
           ELSE IF IsDenied(f.className) \/ <<f.className, f.lineNumber>> \in seen
                THEN ExtractFrom(Tail(lines), seen, windows)
           ELSE ExtractFrom(Tail(lines), seen \cup {<<f.className, f.lineNumber>>},
                  IF f.fileName \in ReadableFiles THEN Append(windows, f) ELSE windows)

\* codeContextExtractor.extract(error.stackTrace); the text of a window is
\* not modelled
extract_noCap(stackTrace) == ExtractFrom_noCap(stackTrace, {}, <<>>)
extract(stackTrace) == ExtractFrom(stackTrace, {}, <<>>)

VARIABLES
  extractions   \* the calls of extract so far: [stackTrace, windows]

extractVars == <<extractions>>
ExtractInit == extractions = <<>>

StackTraces(n) == UNION {[1..k -> FrameLines] : k \in 0..n}

\* requestAiAnalysis, line 519: extract is called on the record's stackTrace
Extract ==
  /\ extractions = <<>>
  /\ \E stackTrace \in StackTraces(MaxFrames) :
       extractions' = <<[stackTrace |-> stackTrace, windows |-> extract(stackTrace)]>>

\* ================================================================ script.js
\* The webview keeps, per service id: the log lines, the error groups, and
\* per error id the latest analysis.  A Map is a function on its keys.
MAX_LOG_LINES == 2   \* 500 in the source
KeyChars == 2        \* 120 in the source

VARIABLES
  logsMap,          \* serviceId -> sequence of [line, level]
  errorGroupsMap,   \* serviceId -> sequence of groups
  analysisMap,      \* errorId -> AnalysisResult
  received          \* instrumentation: the errorUpdate messages handled so far

webVars == <<logsMap, errorGroupsMap, analysisMap, received>>

Webview ==
  [logsMap |-> logsMap, errorGroupsMap |-> errorGroupsMap,
   analysisMap |-> analysisMap, received |-> received]

EmptyMap == [k \in {} |-> <<>>]
MapSet(m, k, v) == [x \in DOMAIN m \cup {k} |-> IF x = k THEN v ELSE m[x]]
MapGet(m, k, default) == IF k \in DOMAIN m THEN m[k] ELSE default

\* the script's top-level declarations, lines 12-21
NewWebview ==
  [logsMap |-> EmptyMap, errorGroupsMap |-> EmptyMap, analysisMap |-> EmptyMap,
   received |-> <<>>]

\* String.prototype.substring(0, n)
Substring(s, n) == SubSeq(s, 1, IF Len(s) < n THEN Len(s) ELSE n)

\* a key made of the logger alone
errorGroupKey_loggerOnly(err) == <<err.logger, "||">>

\* errorGroupKey, lines 444-447: logger + '||' + the trimmed first 120
\* characters of the message
errorGroupKey(err) == <<err.logger, "||">> \o trim(Substring(err.message, KeyChars))

\* mergeErrorIntoGroups, lines 450-466
mergeErrorIntoGroups(groups, err) ==
  LET key == errorGroupKey(err)
      found == {g \in 1..Len(groups) : groups[g].key = key}
  IN  IF found # {}
      THEN LET g == CHOOSE x \in found : \A y \in found : x <= y
           IN  [groups EXCEPT ![g].count = @ + 1, ![g].lastTimestamp = err.timestamp]
      ELSE Append(groups, [key |-> key, message |-> err.message, logger |-> err.logger,
                           level |-> err.level, count |-> 1,
                           lastTimestamp |-> err.timestamp,
                           representativeError |-> err])

RECURSIVE MergeAll(_, _)
MergeAll(groups, errors) ==
  IF errors = <<>> THEN groups
  ELSE MergeAll(mergeErrorIntoGroups(groups, Head(errors)), Tail(errors))

\* appendError, lines 468-476 (rendering is not modelled)
appendError(w, serviceId, error) ==
  [w EXCEPT !.errorGroupsMap =
              MapSet(@, serviceId, mergeErrorIntoGroups(MapGet(@, serviceId, <<>>), error)),
            !.received = Append(@, error)]

\* logs.splice(0, logs.length - MAX_LOG_LINES) when logs.length > MAX_LOG_LINES
Splice(logs) ==
  IF Len(logs) > MAX_LOG_LINES
  THEN SubSeq(logs, Len(logs) - MAX_LOG_LINES + 1, Len(logs))
  ELSE logs

\* appendLog, lines 324-328
appendLog(w, serviceId, line, level) ==
  [w EXCEPT !.logsMap =
     MapSet(@, serviceId,
            Splice(Append(MapGet(@, serviceId, <<>>), [line |-> line, level |-> level])))]

\* storeAnalysis, line 575
storeAnalysis(w, result) ==
  [w EXCEPT !.analysisMap = MapSet(@, result.errorId, result)]

RECURSIVE StoreAll(_, _)
StoreAll(map, results) ==
  IF results = <<>> THEN map
  ELSE StoreAll(MapSet(map, Head(results).errorId, Head(results)), Tail(results))

\* loadSnapshot, lines 254-275, for the one service of a snapshot
loadSnapshot(w, snap) ==
  [w EXCEPT !.logsMap = MapSet(EmptyMap, snap.service.id, snap.logs),
            !.errorGroupsMap = MapSet(EmptyMap, snap.service.id, MergeAll(<<>>, snap.errors)),
            !.analysisMap = StoreAll(EmptyMap, snap.analyses)]

SetWebview(w) ==
  /\ logsMap' = w.logsMap
  /\ errorGroupsMap' = w.errorGroupsMap
  /\ analysisMap' = w.analysisMap
  /\ received' = w.received

WebInit ==
  /\ logsMap = NewWebview.logsMap
  /\ errorGroupsMap = NewWebview.errorGroupsMap
  /\ analysisMap = NewWebview.analysisMap
  /\ received = NewWebview.received

\* ------------------------------------------------------- errorUpdate inputs
MaxErrorUpdates == 3
\* messages as sequences of characters
WebMessages == {<<"x", "y">>, <<"x", "y", "z">>, <<"x", " ", "z">>, <<"x">>}
WebErrors(n) ==
  {[id |-> ErrorId(n), timestamp |-> ts, level |-> "ERROR", logger |-> logger,
    thread |-> <<"main">>, message |-> message, stackTrace |-> <<>>, rawLines |-> <<>>,
    serviceId |-> ServiceId] :
     ts \in Timestamps, logger \in LoggerTokens, message \in WebMessages}

\* the message handler on { type: 'errorUpdate', serviceId, error }
ErrorUpdate ==
  /\ Len(received) < MaxErrorUpdates
  /\ \E error \in WebErrors(Len(received) + 1) :
       SetWebview(appendError(Webview, ServiceId, error))

\* ============================================================ extension.ts
\* activate, lines 141-192: the error counter and the notifications
NotifyEvery == 5

VARIABLES
  errorCountMap,   \* serviceId -> number of 'error-detected' events
  warnings         \* the notifications shown: [serviceId, count]

extVars == <<errorCountMap, warnings>>
Ext == [errorCountMap |-> errorCountMap, warnings |-> warnings]
NewExt == [errorCountMap |-> EmptyMap, warnings |-> <<>>]

\* a listener that notifies on every error
onErrorDetected_always(x, serviceId) ==
  LET newCount == MapGet(x.errorCountMap, serviceId, 0) + 1
  IN  [x EXCEPT !.errorCountMap = MapSet(@, serviceId, newCount),
                !.warnings = Append(@, [serviceId |-> serviceId, count |-> newCount])]

\* serviceManager.on('error-detected', ...), lines 164-185
onErrorDetected(x, serviceId) ==
  LET prev == MapGet(x.errorCountMap, serviceId, 0)
      newCount == prev + 1
  IN  [x EXCEPT !.errorCountMap = MapSet(@, serviceId, newCount),
                !.warnings = IF newCount = 1 \/ newCount % NotifyEvery = 0
                             THEN Append(@, [serviceId |-> serviceId, count |-> newCount])
                             ELSE @]

\* serviceManager.on('service-removed', ...), lines 189-192
onServiceRemoved(x, serviceId) ==
  [x EXCEPT !.errorCountMap = [k \in DOMAIN @ \ {serviceId} |-> @[k]]]

SetExt(x) ==
  /\ errorCountMap' = x.errorCountMap
  /\ warnings' = x.warnings

ExtInit ==
  /\ errorCountMap = NewExt.errorCountMap
  /\ warnings = NewExt.warnings

\* ===================================== SpringBootService: process and logs
\* CircularBuffer, lines 299-333: buf is indexed from 0, <<>> is undefined
NewBuffer(capacity) ==
  [buf |-> [i \in 0..(capacity - 1) |-> <<>>], head |-> 0, _size |-> 0,
   capacity |-> capacity]

CircularBuffer_push(b, item) ==
  [b EXCEPT !.buf[b.head] = <<item>>,
            !.head = (b.head + 1) % b.capacity,
            !._size = IF b._size < b.capacity THEN b._size + 1 ELSE b._size]

\* buf.slice(from, to) as a sequence of items
RECURSIVE Slice(_, _, _)
Slice(buf, from, to) ==
  IF from >= to THEN <<>> ELSE buf[from] \o Slice(buf, from + 1, to)

\* a toArray that reads from index 0 whatever the head
CircularBuffer_toArray_fromZero(b) == Slice(b.buf, 0, b._size)

CircularBuffer_toArray(b) ==
  IF b._size < b.capacity THEN Slice(b.buf, 0, b._size)
  ELSE Slice(b.buf, b.head, b.capacity) \o Slice(b.buf, 0, b.head)

CircularBuffer_clear(b) == NewBuffer(b.capacity)

\* the earlier store of _log, part_002 lines 266-270: push, then shift when
\* longer than MAX_LOG_LINES
ArrayStore_push(logs, item) ==
  LET pushed1 == Append(logs, item)
  IN  IF Len(pushed1) > MAX_LOG_LINES THEN Tail(pushed1) ELSE pushed1

\* one buffer and one array store fed with the same items
MaxPushes == 6
Items == {"a", "b"}

VARIABLES
  ring,       \* a CircularBuffer of capacity MAX_LOG_LINES
  _logs,      \* the array store
  pushed,     \* instrumentation: the items pushed since the last clear
  bufferOps   \* instrumentation: the number of calls so far

bufferVars == <<ring, _logs, pushed, bufferOps>>

BufferInit ==
  /\ ring = NewBuffer(MAX_LOG_LINES)
  /\ _logs = <<>>
  /\ pushed = <<>>
  /\ bufferOps = 0

\* push(item) on both
BufferPush ==
  /\ bufferOps < MaxPushes
  /\ \E item \in Items :
       /\ ring' = CircularBuffer_push(ring, item)
       /\ _logs' = ArrayStore_push(_logs, item)
       /\ pushed' = Append(pushed, item)
  /\ bufferOps' = bufferOps + 1

\* clear() on the buffer, this._logs = [] on the array
BufferClear ==
  /\ bufferOps < MaxPushes
  /\ ring' = CircularBuffer_clear(ring)
  /\ _logs' = <<>>
  /\ pushed' = <<>>
  /\ bufferOps' = bufferOps + 1

VARIABLES
  _status,              \* 'idle' | 'starting' | 'running' | 'stopped' | 'error'
  springProcess,        \* <<>> (null) or <<pid>>
  readlineInterfaces,   \* the pids whose output is being read
  _logBuf,              \* CircularBuffer of [line, level]
  listening,            \* whether the current parser has its 'error' listener
  procs,                \* the Spring processes spawned so far, by pid
  pending,              \* the installs and JDT waits that have not finished
  registered,           \* 'no' | 'added' | 'removed': the ServiceManager's map
  module,               \* 'single' | 'mavenModule': moduleName and buildTool
  addedVia,             \* instrumentation: 'modal' | 'command' | 'none'
  linesRead,            \* instrumentation: the lines read from the processes
  stopRequested         \* instrumentation: stop() or dispose() since the last start()

lifeVars == <<_status, springProcess, readlineInterfaces, _logBuf, listening, procs,
              pending, registered, module, addedVia, linesRead, stopRequested>>

Life ==
  [_status |-> _status, springProcess |-> springProcess,
   readlineInterfaces |-> readlineInterfaces, _logBuf |-> _logBuf,
   listening |-> listening, procs |-> procs, pending |-> pending,
   registered |-> registered, module |-> module, addedVia |-> addedVia,
   linesRead |-> linesRead, stopRequested |-> stopRequested]

\* the field initialisers, lines 336-347; nothing is registered yet
NewLife ==
  [_status |-> "idle", springProcess |-> <<>>, readlineInterfaces |-> {},
   _logBuf |-> NewBuffer(MAX_LOG_LINES), listening |-> FALSE, procs |-> <<>>,
   pending |-> <<>>, registered |-> "no", module |-> "single", addedVia |-> "none",
   linesRead |-> 0, stopRequested |-> FALSE]

SetLife(l) ==
  /\ _status' = l._status
  /\ springProcess' = l.springProcess
  /\ readlineInterfaces' = l.readlineInterfaces
  /\ _logBuf' = l._logBuf
  /\ listening' = l.listening
  /\ procs' = l.procs
  /\ pending' = l.pending
  /\ registered' = l.registered
  /\ module' = l.module
  /\ addedVia' = l.addedVia
  /\ linesRead' = l.linesRead
  /\ stopRequested' = l.stopRequested

LifeInit ==
  /\ _status = NewLife._status
  /\ springProcess = NewLife.springProcess
  /\ readlineInterfaces = NewLife.readlineInterfaces
  /\ _logBuf = NewLife._logBuf
  /\ listening = NewLife.listening
  /\ procs = NewLife.procs
  /\ pending = NewLife.pending
  /\ registered = NewLife.registered
  /\ module = NewLife.module
  /\ addedVia = NewLife.addedVia
  /\ linesRead = NewLife.linesRead
  /\ stopRequested = NewLife.stopRequested

\* the service, its parser, the extension's listeners and the webview
App == [parser |-> Parser, service |-> Service, life |-> Life, ext |-> Ext,
        web |-> Webview]

SetApp(a) ==
  /\ SetParser(a.parser)
  /\ SetService(a.service)
  /\ SetLife(a.life)
  /\ SetExt(a.ext)
  /\ SetWebview(a.web)

\* ServiceManager forwards the service's events while the service is in
\* its map (addService, lines 243-254; dispose removes the listeners)
Forwarding(a) == a.life.registered = "added"

\* the listeners of one 'error-detected' or 'analysis-result' event:
\* extension.ts lines 164-185, WebviewProvider lines 96-102, script lines 183-189
ForwardEvent(a, ev) ==
  IF ~Forwarding(a) THEN a
  ELSE IF ev.type = "error-detected"
       THEN [a EXCEPT !.ext = onErrorDetected(@, ServiceId),
                      !.web = appendError(@, ServiceId, ev.payload)]
       ELSE [a EXCEPT !.web = storeAnalysis(@, ev.payload)]

RECURSIVE ForwardEvents(_, _)
ForwardEvents(a, events) ==
  IF events = <<>> THEN a
  ELSE ForwardEvents(ForwardEvent(a, Head(events)), Tail(events))

\* _log, lines 836-839, and the 'log' listeners
Log(a, line, level) ==
  LET a1 == [a EXCEPT !.life._logBuf = CircularBuffer_push(@, [line |-> line,
                                                               level |-> level])]
  IN  IF Forwarding(a) THEN [a1 EXCEPT !.web = appendLog(@, ServiceId, line, level)]
      ELSE a1

\* _updateStatus, lines 868-871
UpdateStatus(a, status) == [a EXCEPT !.life._status = status]

\* a call on the parser that took it to p1: its 'error' listener, then the
\* listeners of the events the service emitted
FeedParser(a, p1, now) ==
  IF ~a.life.listening THEN [a EXCEPT !.parser = p1]
  ELSE LET s1 == OnErrors(a.service, p1.heap, NewEvents(a.parser, p1), now)
           new == SubSeq(s1.published, Len(a.service.published) + 1, Len(s1.published))
       IN  ForwardEvents([a EXCEPT !.parser = p1, !.service = s1], new)

\* _closeReadlines, lines 849-854
CloseReadlines(a) == [a EXCEPT !.life.readlineInterfaces = {}]

\* _killProcess, lines 812-834, on a platform other than win32: SIGTERM now,
\* SIGKILL from a timer unless the process has exited by then
KillProcess(a) ==
  IF a.life.springProcess = <<>> THEN a
  ELSE LET pid == a.life.springProcess[1]
       IN  [a EXCEPT !.life.springProcess = <<>>,
                     !.life.procs[pid].term = a.life.procs[pid].alive,
                     !.life.procs[pid].killTimer = a.life.procs[pid].alive]

\* new LogParser(this.id): its arrays are new ones in the same heap
FreshParser(p) ==
  [NewParser EXCEPT !.heap = p.heap \o << <<>>, <<>>, <<>> >>,
                    !.stackTraceBuffer = Len(p.heap) + 1,
                    !.rawLinesBuffer = Len(p.heap) + 2,
                    !.contextLinesBuffer = Len(p.heap) + 3]

\* _resetLogParser, lines 857-866
ResetLogParser(a, now) ==
  [FeedParser(a, flush(a.parser), now) EXCEPT !.parser = FreshParser(@),
                                             !.life.listening = TRUE]

\* spawn(...) and the listeners on the new process
Spawn(a) ==
  LET pid == Len(a.life.procs) + 1
  IN  [a EXCEPT !.life.procs = Append(@, [alive |-> TRUE, term |-> FALSE,
                                          killTimer |-> FALSE, kill |-> FALSE,
                                          stopped |-> FALSE,
                                          afterStop |-> a.life.stopRequested,
                                          exit |-> <<>>,
                                          reported |-> <<>>]),
                !.life.springProcess = <<pid>>,
                !.life.readlineInterfaces = @ \cup {pid}]

LogStarting == <<"[spring-advisor]", " ", "Starting">>
LogInstalling == <<"[spring-advisor]", " ", "Installing">>
LogInstalled == <<"[spring-advisor]", " ", "Installed">>
LogJdt == <<"[spring-advisor]", " ", "JDT">>
LogFallback == <<"[spring-advisor]", " ", "JDT", " ", "fallback">>

\* _launchProcess, lines 743-810
LaunchProcess(a, now) ==
  Spawn(ResetLogParser(Log(UpdateStatus(a, "starting"), LogStarting, "INFO"), now))

\* _spawnJavaProcess, lines 676-741
SpawnJavaProcess(a, now) == Spawn(ResetLogParser(a, now))

\* _installThenRun, lines 564-589, up to the exit of the install process
InstallThenRun(a) ==
  [Log(a, LogInstalling, "INFO") EXCEPT !.life.pending = Append(@, "install")]

\* _fallbackToBootRun, lines 668-674
FallbackToBootRun(a, now) ==
  IF a.life.module = "mavenModule" THEN InstallThenRun(a) ELSE LaunchProcess(a, now)

\* _launchWithJdt, lines 597-603, up to its first await
LaunchWithJdt(a) ==
  [Log(UpdateStatus(a, "starting"), LogJdt, "INFO") EXCEPT
     !.life.pending = Append(@, "jdt")]

\* start, lines 384-424; configure is applied by the action
start(a, useJdt, now) ==
  IF a.life.springProcess # <<>> /\ a.life._status \in {"starting", "running"}
  THEN a
  ELSE LET a1 == KillProcess(a)
           a2 == [a1 EXCEPT !.life.stopRequested = FALSE,
                            !.service._errors = <<>>,
                            !.service._analyses = <<>>,
                            !.life._logBuf = CircularBuffer_clear(@)]
       IN  IF useJdt THEN LaunchWithJdt(a2)
           ELSE IF a2.life.module = "mavenModule" THEN InstallThenRun(a2)
           ELSE LaunchProcess(a2, now)

\* stop, lines 491-500; the process stop() signals and the call itself are
\* marked (instrumentation)
stop(a, now) ==
  IF a.life.springProcess = <<>>
  THEN [UpdateStatus(CloseReadlines(a), "stopped") EXCEPT !.life.stopRequested = TRUE]
  ELSE LET pid == a.life.springProcess[1]
           a1 == CloseReadlines(FeedParser(a, flush(a.parser), now))
       IN  [KillProcess(a1) EXCEPT !.life.procs[pid].stopped = TRUE,
                                   !.life.stopRequested = TRUE]

\* dispose, lines 527-533: the parser's listeners go, then the service's
dispose(a, now) ==
  [KillProcess(CloseReadlines(FeedParser(a, flush(a.parser), now))) EXCEPT
     !.life.listening = FALSE, !.life.stopRequested = TRUE]

\* lines 803-807
ExitStatus(proc, code, signal) ==
  IF code = 0 \/ signal = "SIGTERM" THEN "stopped" ELSE "error"

\* springProcess.on('exit', ...), lines 799-808, for the process pid
OnExit(a, pid, code, signal, now) ==
  LET a1 == FeedParser(CloseReadlines(a), flush(a.parser), now)
      status == ExitStatus(a.life.procs[pid], code, signal)
  IN  [UpdateStatus(a1, status) EXCEPT
         !.life.springProcess = <<>>,
         !.life.procs[pid].alive = FALSE,
         !.life.procs[pid].killTimer = FALSE,
         !.life.procs[pid].exit = <<[code |-> code, signal |-> signal]>>,
         !.life.procs[pid].reported = <<status>>]

\* ServiceManager.getSnapshots, lines 31-38, for the one service
getSnapshot(a) ==
  [service |-> [id |-> ServiceId, status |-> a.life._status],
   logs |-> CircularBuffer_toArray(a.life._logBuf),
   errors |-> a.service._errors,
   analyses |-> a.service._analyses]

\* ------------------------------------------------ the service's operations
MaxProcs == 2
MaxPanelLines == 3
MaxNoisyLines == 6

Modules == {"single", "mavenModule"}
LineStarted ==
  HeadBoot2("INFO") \o <<"Started", " ", "DemoApp", " ", "in", " ", "3.2", " ", "seconds">>
\* /Started \w+ in \d+[\.,]\d+ seconds/.test(line)
IsStarted(line) ==
  \E k \in 1..Len(line) :
    /\ k + 8 <= Len(line)
    /\ line[k] = "Started" /\ line[k + 1] = " " /\ line[k + 2] = "DemoApp"
    /\ SubSeq(line, k + 3, k + 8) = <<" ", "in", " ", "3.2", " ", "seconds">>

PanelLines == {LineErrBoom, LineCausedBy, LineStarted}
NoisyLines == {LineErrBoom}

\* the null code of a process ended by a signal, the null signal of one
\* that exited, and the exit code of a JVM that handled SIGTERM (128 + 15)
NoCode == -1
NoSignal == "null"
TermCode == 143

\* how a process can end: on its own with any code, by SIGTERM or with the
\* code of a handled SIGTERM once that signal is delivered, by SIGKILL only
\* once that one is
Exits(proc) ==
  IF proc.kill THEN {[code |-> NoCode, signal |-> "SIGKILL"]}
  ELSE {[code |-> 0, signal |-> NoSignal], [code |-> 1, signal |-> NoSignal]}
       \cup IF proc.term
            THEN {[code |-> NoCode, signal |-> "SIGTERM"],
                  [code |-> TermCode, signal |-> NoSignal]}
            ELSE {}

\* what the operations of the service leave alone
AroundService == UNCHANGED <<analyzerVars, gatewayVars, extractVars, bufferVars>>

\* service.start(...) as ServiceManager.startService calls it, lines 259-271,
\* with no API key in the settings
StartFrom(a, useJdt) ==
  LET ignored == a.life.springProcess # <<>>
                   /\ a.life._status \in {"starting", "running"}
  IN  /\ SetApp(start(a, useJdt, DateNow(clock)))
      /\ IF ignored
         THEN UNCHANGED <<client, maxRequestsPerMinute, requestTimestamps, lastApiKey>>
         ELSE /\ SetGateway(configure(Gateway, "", DefaultMaxRequests))
              /\ lastApiKey' = <<"">>
      /\ UNCHANGED <<analyzerVars, requests, remote, extractVars, bufferVars>>

CanLaunch == Len(procs) + Len(pending) < MaxProcs

Added(a, m, via) ==
  [a EXCEPT !.life.registered = "added", !.life.module = m, !.life.addedVia = via]

\* WebviewProvider.addAndStartModules, lines 184-194, for one module
AddAndStartModulesFor(modules) ==
  /\ registered = "no"
  /\ \E m \in modules : SetApp(Added(App, m, "modal"))
  /\ AroundService

\* the springErrorAnalyzer.startService command, extension.ts lines 31-72
StartServiceCommandFor(modules, jdts) ==
  /\ registered = "no"
  /\ CanLaunch
  /\ \E m \in modules, useJdt \in jdts : StartFrom(Added(App, m, "command"), useJdt)

\* the start button: ServiceManager.startService
StartServiceFor(jdts) ==
  /\ registered = "added"
  /\ CanLaunch
  /\ \E useJdt \in jdts : StartFrom(App, useJdt)

\* the stop button: ServiceManager.stopService
StopService ==
  /\ registered = "added"
  /\ SetApp(stop(App, DateNow(clock)))
  /\ AroundService

\* 'removeService', WebviewProvider lines 143-146: stopService, then
\* removeService (dispose, delete, 'service-removed')
RemoveService ==
  /\ registered = "added"
  /\ LET a1 == dispose(stop(App, DateNow(clock)), DateNow(clock))
     IN  SetApp([a1 EXCEPT !.life.registered = "removed",
                           !.ext = onServiceRemoved(@, ServiceId)])
  /\ AroundService

Without(s, k) == SubSeq(s, 1, k - 1) \o SubSeq(s, k + 1, Len(s))

\* installProcess.on('exit', ...), lines 581-588
InstallExit ==
  /\ \E k \in 1..Len(pending) :
       /\ pending[k] = "install"
       /\ SetApp(LaunchProcess(Log([App EXCEPT !.life.pending = Without(@, k)],
                                   LogInstalled, "INFO"),
                               DateNow(clock)))
  /\ AroundService

\* _launchWithJdt after its awaits, lines 601-667: the classpath was found,
\* or something was missing
JdtDone ==
  /\ \E k \in 1..Len(pending), found \in BOOLEAN :
       /\ pending[k] = "jdt"
       /\ LET a1 == [App EXCEPT !.life.pending = Without(@, k)]
          IN  SetApp(IF found
                     THEN SpawnJavaProcess(Log(a1, LogJdt, "INFO"), DateNow(clock))
                     ELSE FallbackToBootRun(Log(a1, LogFallback, "WARN"),
                                            DateNow(clock)))
  /\ AroundService

\* the stdout line listener, lines 777-783
StdoutLineFrom(lines, max) ==
  /\ linesRead < max
  /\ \E pid \in readlineInterfaces, raw \in lines :
       /\ procs[pid].alive
       /\ LET a1 == Log([App EXCEPT !.life.linesRead = @ + 1], raw, "INFO")
              p1 == parseLine([a1.parser EXCEPT !.input = Append(@, raw)], raw)
              a2 == FeedParser(a1, p1, DateNow(clock))
          IN  SetApp(IF IsStarted(raw) THEN UpdateStatus(a2, "running") ELSE a2)
  /\ AroundService

\* the timer of _killProcess, lines 828-831
KillTimer ==
  /\ \E pid \in 1..Len(procs) :
       /\ procs[pid].killTimer
       /\ procs[pid].alive
       /\ SetApp([App EXCEPT !.life.procs[pid].kill = TRUE,
                             !.life.procs[pid].killTimer = FALSE])
  /\ AroundService

\* a process ends: its exit handler
ProcessExit ==
  /\ \E pid \in 1..Len(procs) :
       /\ procs[pid].alive
       /\ \E e \in Exits(procs[pid]) :
            SetApp(OnExit(App, pid, e.code, e.signal, DateNow(clock)))
  /\ AroundService

\* the state of everything around the service
appVars == <<extractVars, webVars, extVars, lifeVars, bufferVars>>
AppInit == ExtractInit /\ WebInit /\ ExtInit /\ LifeInit /\ BufferInit

\* ------------------------------------------------------------ specifications
vars == <<parserVars, analyzerVars, serviceVars, gatewayVars, appVars>>

Init == ParserInit /\ AnalyzerInit /\ ServiceInit /\ GatewayInit /\ AppInit

\* one service fed by its line listeners
Next ==
  \/ ParseLine /\ UNCHANGED <<analyzerVars, gatewayVars, appVars>>
  \/ Flush /\ UNCHANGED <<analyzerVars, gatewayVars, appVars>>

Spec == Init /\ [][Next]_vars

\* one LocalAnalyzer called on finished records
NextClassify ==
  \/ Analyze /\ UNCHANGED <<parserVars, serviceVars, gatewayVars, appVars>>
  \/ Tick /\ UNCHANGED <<parserVars, serviceVars, gatewayVars, appVars>>

SpecClassify == Init /\ [][NextClassify]_vars

\* one service: its line listeners, and AI analyses requested by the user
NextGateway ==
  \/ IngestLine /\ UNCHANGED <<analyzerVars, gatewayVars, appVars>>
  \/ Flush /\ UNCHANGED <<analyzerVars, gatewayVars, appVars>>
  \/ Configure /\ UNCHANGED <<parserVars, analyzerVars, serviceVars, appVars>>
  \/ RequestAiAnalysis /\ UNCHANGED <<parserVars, analyzerVars, appVars>>
  \/ RemoteReply /\ UNCHANGED <<parserVars, analyzerVars, appVars>>
  \/ Tick /\ UNCHANGED <<parserVars, serviceVars, gatewayVars, appVars>>

SpecGateway == Init /\ [][NextGateway]_vars

\* the same service, more errors arriving while analyses are outstanding
NextBusy ==
  \/ IngestBusyLine /\ UNCHANGED <<analyzerVars, gatewayVars, appVars>>
  \/ Flush /\ UNCHANGED <<analyzerVars, gatewayVars, appVars>>
  \/ Configure /\ UNCHANGED <<parserVars, analyzerVars, serviceVars, appVars>>
  \/ RequestAiAnalysis /\ UNCHANGED <<parserVars, analyzerVars, appVars>>
  \/ RemoteReplyBusy /\ UNCHANGED <<parserVars, analyzerVars, appVars>>
  \/ Tick /\ UNCHANGED <<parserVars, serviceVars, gatewayVars, appVars>>

SpecBusy == Init /\ [][NextBusy]_vars

\* one service fed by its line listeners, some lines holding escaped breaks
NextEscaped ==
  \/ ParseLine /\ UNCHANGED <<analyzerVars, gatewayVars, appVars>>
  \/ ParseEscapedLine /\ UNCHANGED <<analyzerVars, gatewayVars, appVars>>
  \/ Flush /\ UNCHANGED <<analyzerVars, gatewayVars, appVars>>

SpecEscaped == Init /\ [][NextEscaped]_vars

\* one service, the remote replies carrying a confidence of their own
NextScored ==
  \/ IngestLine /\ UNCHANGED <<analyzerVars, gatewayVars, appVars>>
  \/ Flush /\ UNCHANGED <<analyzerVars, gatewayVars, appVars>>
  \/ Configure /\ UNCHANGED <<parserVars, analyzerVars, serviceVars, appVars>>
  \/ RequestAiAnalysis /\ UNCHANGED <<parserVars, analyzerVars, appVars>>
  \/ RemoteReplyScored /\ UNCHANGED <<parserVars, analyzerVars, appVars>>
  \/ Tick /\ UNCHANGED <<parserVars, serviceVars, gatewayVars, appVars>>

SpecScored == Init /\ [][NextScored]_vars

\* SpecGateway, time passing for ever (up to the bound of the clock); nothing
\* in these sources makes the remote call settle
SpecGatewayLive ==
  SpecGateway /\ WF_vars(Tick /\ UNCHANGED <<parserVars, serviceVars, gatewayVars, appVars>>)

\* one CodeContextExtractor called on stack traces
NextExtract ==
  \/ Extract /\ UNCHANGED <<parserVars, analyzerVars, serviceVars, gatewayVars, webVars,
                            extVars, lifeVars, bufferVars>>

SpecExtract == Init /\ [][NextExtract]_vars

\* the webview handling errorUpdate messages
NextGroups ==
  \/ ErrorUpdate /\ UNCHANGED <<parserVars, analyzerVars, serviceVars, gatewayVars,
                                extractVars, extVars, lifeVars, bufferVars>>

SpecGroups == Init /\ [][NextGroups]_vars

\* one service from registration on, every way of launching it
AddAndStartModules == AddAndStartModulesFor(Modules)
StartServiceCommand == StartServiceCommandFor(Modules, BOOLEAN)
StartService == StartServiceFor(BOOLEAN)
MaxStartedLines == 1
StartedLine == StdoutLineFrom({LineStarted}, MaxStartedLines)

NextLifecycle ==
  \/ AddAndStartModules
  \/ StartServiceCommand
  \/ StartService
  \/ StopService
  \/ InstallExit
  \/ JdtDone
  \/ StartedLine
  \/ KillTimer
  \/ ProcessExit

SpecLifecycle == Init /\ [][NextLifecycle]_vars

\* the same where what was scheduled does run: an install ends, the JDT
\* calls settle, a timer fires.  Nothing makes a user press a button or a
\* monitored process end.
SpecLifecycleLive ==
  SpecLifecycle /\ WF_vars(InstallExit) /\ WF_vars(JdtDone) /\ WF_vars(KillTimer)

\* a single-module service launched without JDT, its output and its panel
AddSingleModule == AddAndStartModulesFor({"single"})
StartSingleCommand == StartServiceCommandFor({"single"}, {FALSE})
StartSingle == StartServiceFor({FALSE})
StdoutLine == StdoutLineFrom(PanelLines, MaxPanelLines)

NextPanel ==
  \/ AddSingleModule
  \/ StartSingleCommand
  \/ StartSingle
  \/ StopService
  \/ StdoutLine
  \/ KillTimer
  \/ ProcessExit

SpecPanel == Init /\ [][NextPanel]_vars

\* a service that prints many errors, until it is removed
NoisyLine == StdoutLineFrom(NoisyLines, MaxNoisyLines)

NextNotify ==
  \/ StartSingleCommand
  \/ StartSingle
  \/ StopService
  \/ NoisyLine
  \/ ProcessExit
  \/ RemoveService

SpecNotify == Init /\ [][NextNotify]_vars

\* a CircularBuffer beside the array store it replaced
BufferRest ==
  UNCHANGED <<parserVars, analyzerVars, serviceVars, gatewayVars, extractVars, webVars,
              extVars, lifeVars>>

NextBuffer ==
  \/ BufferPush /\ BufferRest
  \/ BufferClear /\ BufferRest

SpecBuffer == Init /\ [][NextBuffer]_vars

\* a gateway whose ceiling is changed between requests
MaxLoweredRequests == 3
LoweredCeilings == {1, 2}
ConfigureLowered == ConfigureFrom({"sk-key"}, LoweredCeilings)
RequestLowered == RequestAiAnalysisUpTo(MaxLoweredRequests)

NextLowered ==
  \/ IngestLine /\ UNCHANGED <<analyzerVars, gatewayVars, appVars>>
  \/ Flush /\ UNCHANGED <<analyzerVars, gatewayVars, appVars>>
  \/ ConfigureLowered /\ UNCHANGED <<parserVars, analyzerVars, serviceVars, appVars>>
  \/ RequestLowered /\ UNCHANGED <<parserVars, analyzerVars, appVars>>
  \/ Tick /\ UNCHANGED <<parserVars, serviceVars, gatewayVars, appVars>>

SpecLowered == Init /\ [][NextLowered]_vars

\* ------------------------------------------------------------ observations
ErrorEvents == {k \in 1..Len(emitted) : emitted[k].type = "error"}
LogEvents == {k \in 1..Len(emitted) : emitted[k].type = "log"}
EmittedIds == {emitted[k].payload.id : k \in ErrorEvents}
SuppressedIds == {s.id : s \in suppressed}
IdNumber(id) == id[3]
IsOpen == currentError # <<>>
Header(i) == MatchLogLine(trimEnd(input[i]))
HeaderLines == {i \in 1..Len(input) : Header(i).ok}
\* the records whose header is line i: open, emitted or suppressed
StartedIds(i) ==
  {currentError[k].id : k \in {k \in 1..Len(currentError) : openedAt = i}}
    \cup {emitted[k].payload.id : k \in {k \in ErrorEvents : emitted[k].src = i}}
    \cup {s.id : s \in {s \in suppressed : s.src = i}}
LogsFor(i) == {k \in LogEvents : emitted[k].src = i}
\* the lines delivered after header src up to line last, as the parser sees them
Continuations(src, last) == [k \in 1..(last - src) |-> trimEnd(input[src + k])]
IsContextLine(t) == ~IsTraceLine(t)
IsUsableContext(t) == IsContextLine(t) /\ IsMeaningful(t)
UsableContext(src, last) == SelectSeq(Continuations(src, last), IsUsableContext)

\* ---------------------------------------------------------------- claim C1
\* the identifiers handed out whose record is neither emitted nor suppressed
OpenIds ==
  {n \in 1..errorCounter : ErrorId(n) \notin EmittedIds \cup SuppressedIds}
\* C1: at most one ErrorRecord is open at any time: of the identifiers handed
\* out so far, at most one belongs to a record that is neither emitted nor
\* suppressed, and it is the record currentError holds.
C1_AtMostOneOpen ==
  /\ Cardinality(OpenIds) <= 1
  /\ IsOpen => OpenIds = {IdNumber(currentError[1].id)}
  /\ ~IsOpen => OpenIds = {}
\* C1 witness: a second record is open after the first one was closed
C1_Witness ==
  /\ IsOpen /\ errorCounter = 2
  /\ ErrorId(1) \in EmittedIds

C3_ArrivalOrder ==
  /\ \A a, b \in 1..Len(emitted) : a < b => emitted[a].src <= emitted[b].src
  /\ IsOpen => /\ openedAt \in HeaderLines
               /\ \A i \in HeaderLines : i <= openedAt
               /\ \A k \in 1..Len(emitted) : emitted[k].src <= openedAt
\* C3 witness: an ErrorRecord closed by the next header, directly followed by
\* that header's LogRecord
C3_Witness ==
  \E k \in ErrorEvents :
    /\ k < Len(emitted)
    /\ emitted[k + 1].type = "log"
    /\ emitted[k + 1].src = emitted[k].last + 1
    /\ emitted[k].last > emitted[k].src

\* ---------------------------------------------------------------- claim C4
\* a step of flush() on an open record (parseLine always extends input)
FlushStep == input' = input /\ IsOpen
AccumulatedNonBlank ==
  \/ HasText(currentError[1].message)
  \/ UsableContext(openedAt, Len(input)) # <<>>
Contentless ==
  /\ ~HasText(currentError[1].message)
  /\ \A k \in (openedAt + 1)..Len(input) : ~HasText(input[k])
EmitsOne ==
  /\ Len(emitted') = Len(emitted) + 1
  /\ SubSeq(emitted', 1, Len(emitted)) = emitted
  /\ emitted'[Len(emitted')].type = "error"
  /\ emitted'[Len(emitted')].payload.id = currentError[1].id
\* C4 as stated (counterexample): flush() with an open record whose accumulated
\* message is non-blank emits exactly one ErrorRecord and leaves the parser
\* idle; flush() with an open record that has a blank header message and no
\* non-blank continuation line emits nothing.
C4_Original ==
  [][FlushStep =>
       /\ AccumulatedNonBlank => EmitsOne /\ currentError' = <<>>
       /\ Contentless => emitted' = emitted]_vars

\* ---------------------------------------------------------------- claim C5
HeaderBlank(i) == ~HasText(Header(i).message)
HasContent(src, last) == \E k \in (src + 1)..last : HasText(input[k])
ExpectedMessage(src, last) ==
  IF UsableContext(src, last) # <<>>
  THEN JoinLines(UsableContext(src, last))
  ELSE Placeholder
\* C5 as stated (counterexample): a record with a blank header message is
\* finalized with the join of its usable context lines as message, and with
\* the placeholder when it has content (e.g. only stack frames) but no usable
\* context line; only a record without content is dropped.
C5_Original ==
  /\ \A k \in ErrorEvents :
       HeaderBlank(emitted[k].src) =>
         emitted[k].payload.message = ExpectedMessage(emitted[k].src, emitted[k].last)
  /\ \A s \in suppressed : ~HasContent(s.src, s.last)

\* ---------------------------------------------------------------- claim C6
\* C6: identifiers come from a counter that starts at 1, they strictly
\* increase in emission order, and a number that was handed out is missing
\* from the emitted records only while its record is open or when its record
\* was suppressed for its blank message.
C6_Identifiers ==
  /\ \A k \in ErrorEvents :
       /\ emitted[k].payload.id = ErrorId(IdNumber(emitted[k].payload.id))
       /\ IdNumber(emitted[k].payload.id) \in 1..errorCounter
  /\ \A a, b \in ErrorEvents :
       a < b => IdNumber(emitted[a].payload.id) < IdNumber(emitted[b].payload.id)
  /\ \A n \in 1..errorCounter :
       \/ ErrorId(n) \in EmittedIds
       \/ IsOpen /\ currentError[1].id = ErrorId(n) /\ n = errorCounter
       \/ \E s \in suppressed : s.id = ErrorId(n) /\ HeaderBlank(s.src)
\* C6 witness: 1 and 3 were emitted, 2 was suppressed
C6_Witness ==
  /\ {ErrorId(1), ErrorId(3)} \subseteq EmittedIds
  /\ ErrorId(2) \in SuppressedIds

\* ---------------------------------------------------------------- claim C7
\* the promote-to-error signature the specification describes ("rolled back")
PromoteTokens == {"Transaction rolled back"}
MatchesPromoteSignature(message) ==
  \E k \in 1..Len(message) : message[k] \in PromoteTokens
\* C7 as stated (counterexample): a WARN header whose message matches the promote-to-error
\* signature opens an ErrorRecord, as an ERROR header does.
C7_Original ==
  \A i \in HeaderLines :
    (Header(i).level = "WARN" /\ MatchesPromoteSignature(Header(i).message))
      => StartedIds(i) # {}

\* ---------------------------------------------------------------- claim C8
RawLinesOf(k) == heap[emitted[k].payload.rawLines]
\* C8 as stated (counterexample): rawLines is the block of lines exactly as received.
C8_Original ==
  \A k \in ErrorEvents :
    RawLinesOf(k) = SubSeq(input, emitted[k].src, emitted[k].last)
\* C8 as amended: rawLines is the block of lines as received, in order and
\* blank lines included, each with its trailing whitespace removed (a line
\* of whitespace only is kept as the empty line).
C8_RawLinesTrimmed ==
  \A k \in ErrorEvents :
    RawLinesOf(k) =
      [n \in 1..(emitted[k].last - emitted[k].src + 1) |->
         trimEnd(input[emitted[k].src + n - 1])]
\* C8 witness: an emitted record with a blank continuation line and one that
\* ended in whitespace
C8_Witness ==
  \E k \in ErrorEvents :
    /\ \E n \in (emitted[k].src + 1)..emitted[k].last : input[n] = <<>>
    /\ \E n \in (emitted[k].src + 1)..emitted[k].last :
         HasText(input[n]) /\ trimEnd(input[n]) # input[n]

\* ---------------------------------------------------------------- claim C9
NotReopened == IsOpen => currentError[1].id \notin EmittedIds
NotAliased ==
  \A k \in ErrorEvents :
    {emitted[k].payload.stackTrace, emitted[k].payload.rawLines}
      \cap {stackTraceBuffer, rawLinesBuffer, contextLinesBuffer} = {}
Frozen ==
  /\ Len(emitted') >= Len(emitted)
  /\ \A k \in 1..Len(emitted) : emitted'[k] = emitted[k]
  /\ \A k \in ErrorEvents :
       /\ heap'[emitted[k].payload.stackTrace] = heap[emitted[k].payload.stackTrace]
       /\ heap'[emitted[k].payload.rawLines] = heap[emitted[k].payload.rawLines]
\* C9: an emitted ErrorRecord is never reopened and never changes: no step
\* changes an emitted event or the arrays it refers to, the open record is
\* never one that was emitted, and the emitted arrays are not the parser's
\* buffers.
C9_EmittedImmutable == [][Frozen /\ NotReopened' /\ NotAliased']_vars
\* C9 witness: after an emission a later record is open and has accumulated
\* lines
C9_Witness ==
  /\ ErrorEvents # {}
  /\ IsOpen
  /\ Len(heap[rawLinesBuffer]) >= 2

\* --------------------------------------------------------------- claim C10
MatchingRules(error) ==
  {i \in 1..Len(ERROR_PATTERNS) : TestPattern(ERROR_PATTERNS[i], FullText(error))}
\* C10: every call of analyze, whatever was called before it, returns null
\* when no rule matches the text and otherwise the verdict of the matching
\* rule declared earliest.
C10_FirstMatchWins ==
  \A c \in 1..Len(analyses) :
    LET error == analyses[c].error
        result == analyses[c].result
        matching == MatchingRules(error)
        first == CHOOSE i \in matching : \A j \in matching : i <= j
    IN  IF matching = {} THEN result = <<>>
        ELSE /\ Len(result) = 1
             /\ result[1].title = ERROR_PATTERNS[first].title
             /\ result[1].confidence = ERROR_PATTERNS[first].confidence
             /\ result[1].errorId = error.id
\* C10 witness: a text two rules match and a text no rule matches were analysed
C10_Witness ==
  /\ \E c \in 1..Len(analyses) :
       Cardinality(MatchingRules(analyses[c].error)) >= 2
  /\ \E c \in 1..Len(analyses) : MatchingRules(analyses[c].error) = {}

\* --------------------------------------------------------------- claim C11
SameRecord(c, d) == analyses[c].error = analyses[d].error
\* C11 as stated (counterexample): two calls of analyze on the same record
\* return results equal in every field.
C11_Original ==
  \A c, d \in 1..Len(analyses) :
    SameRecord(c, d) => analyses[c].result = analyses[d].result
Untimed(result) == [k \in 1..Len(result) |-> [result[k] EXCEPT !.timestamp = 0]]
\* C11: two calls of analyze on the same record return the same result in
\* every field but the timestamp, which is the time of the call.
C11_SameVerdictButTimestamp ==
  /\ \A c, d \in 1..Len(analyses) :
       SameRecord(c, d) => Untimed(analyses[c].result) = Untimed(analyses[d].result)
  /\ \A c \in 1..Len(analyses) :
       analyses[c].result # <<>> => analyses[c].result[1].timestamp = analyses[c].at
\* C11 witness: a record some rule matches was analysed twice, at different times
C11_Witness ==
  \E c, d \in 1..Len(analyses) :
    /\ SameRecord(c, d)
    /\ analyses[c].at # analyses[d].at
    /\ analyses[c].result # <<>>

\* --------------------------------------------------------------- claim C12
\* C12: canHandle answers true exactly for the records analyze returns a
\* verdict for, it answers the same each time it is asked, and a call
\* changes nothing but the log of calls kept here.
C12_CanHandleAgrees ==
  /\ \A c \in 1..Len(analyses) :
       analyses[c].can <=> (analyses[c].result # <<>>)
  /\ \A c, d \in 1..Len(analyses) :
       SameRecord(c, d) => analyses[c].can = analyses[d].can
\* C12 witness: canHandle has answered true for a record that only its stack
\* trace makes match, and false for another
C12_Witness ==
  /\ \E c \in 1..Len(analyses) :
       /\ analyses[c].can
       /\ ~canHandle([analyses[c].error EXCEPT !.stackTrace = <<>>])
  /\ \E c \in 1..Len(analyses) : ~analyses[c].can

\* ------------------------------------------------------ service observations
\* what one step adds to the parser's events and to the service's
NewEmitted == SubSeq(emitted', Len(emitted) + 1, Len(emitted'))
NewErrors == SelectSeq(NewEmitted, LAMBDA e : e.type = "error")
NewPublished == SubSeq(published', Len(published) + 1, Len(published'))
\* some rule matches the record
Matches(h, errorBlock) == MatchingRules(Deref(h, errorBlock)) # {}
Awaiting == {i \in 1..Len(requests) : requests[i].pc = "awaiting"}
IsLocalEvent(ev) ==
  ev.type = "error-detected" \/ ev.payload.analysisType = "local"
IdOf(ev) == IF ev.type = "error-detected" THEN ev.payload.id ELSE ev.payload.errorId
PairedWith(r, title) ==
  /\ Len(r.outcome) = 1
  /\ r.outcome[1].title = title
  /\ r.outcome[1].errorId = r.error.id
  /\ r.outcome[1].analysisType = "ai"
\* the request ended in "rate limited" and made no remote call
Limited(r) == ~r.called /\ r.pc = "done" /\ PairedWith(r, TitleRateLimited)
\* the request ended in "unavailable" and made no remote call
Unavailable(r) == ~r.called /\ r.pc = "done" /\ PairedWith(r, TitleUnavailable)

C14_RateLimit ==
  \A i \in 1..Len(requests) :
    LET r == requests[i]
    IN  r.configured => IF r.inWindow >= r.ceiling THEN Limited(r) ELSE r.called
\* C14 witness: a call was made and a later attempt of the same minute was
\* rate limited
C14_Witness ==
  \E i, j \in 1..Len(requests) :
    /\ i < j
    /\ requests[i].called
    /\ requests[j].at - requests[i].at < OneMinute
    /\ requests[j].inWindow = requests[j].ceiling
    /\ Limited(requests[j])

\* --------------------------------------------------------------- claim C15
\* the remote calls up to call c made less than a minute before it, c included
WindowOf(c) == {d \in 1..c : remote[c].at - remote[d].at < OneMinute}
Occurrences(seq, x) == Cardinality({k \in 1..Len(seq) : seq[k] = x})
\* C15: the remote calls of any 60 seconds never number more than the ceiling
\* in force when the last of them was made, however many are outstanding; and
\* every remote call of the last 60 seconds has its timestamp in the rate
\* window from the step that made it, whether it is still outstanding, has
\* succeeded or has failed.
C15_CeilingHolds ==
  /\ \A c \in 1..Len(remote) : Cardinality(WindowOf(c)) <= remote[c].ceiling
  /\ \A c \in InWindow(remote, DateNow(clock)) :
       Occurrences(requestTimestamps, remote[c].at)
         = Cardinality({d \in 1..Len(remote) : remote[d].at = remote[c].at})
\* C15 witness: a remote call failed, and an attempt made within the minute,
\* while another call was outstanding or not, was turned away
C15_Witness ==
  \E i, j \in 1..Len(requests) :
    /\ i < j
    /\ requests[i].called
    /\ requests[i].reply = <<ReplyRejected>>
    /\ requests[j].at - requests[i].at < OneMinute
    /\ Limited(requests[j])

Variants == {TitleUnavailable, TitleRateLimited, TitleFailed}
\* the request ended in a success: a result that is none of the other variants
Succeeded(r) ==
  /\ Len(r.outcome) = 1
  /\ r.outcome[1].title \notin Variants
  /\ r.outcome[1].errorId = r.error.id
\* C17 as stated (counterexample): every finished request has exactly one
\* outcome, carrying the record's id, of the variant its course calls for.
C17_Original ==
  \A i \in 1..Len(requests) :
    LET r == requests[i]
    IN  r.pc = "done" =>
          IF ~r.configured THEN Unavailable(r)
          ELSE IF ~r.called THEN Limited(r)
          ELSE Succeeded(r) \/ PairedWith(r, TitleFailed)

\* --------------------------------------------------------------- claim C18
\* the text of the reply, when its first block is a text block
IsText(reply) ==
  reply.kind = "response" /\ reply.content # <<>> /\ reply.content[1].type = "text"
Shape == {"title", "description", "suggestion", "confidence"}
\* the fixed structured shape: an object with the three texts and a number
HasFixedShape(text) ==
  LET parsed == JSON_parse(text)
  IN  /\ parsed.ok
      /\ ~parsed.isNull
      /\ Shape \subseteq DOMAIN parsed.members
      /\ \A key \in Shape \ {"confidence"} : parsed.members[key].type = "string"
      /\ parsed.members["confidence"].type = "number"
\* C18 as stated (counterexample): a text reply that has not the fixed shape,
\* fenced or not, ends in "analysis failed"; one that has it ends in a success
\* carrying the reply's title and confidence.
C18_Original ==
  \A i \in 1..Len(requests) :
    LET r == requests[i]
        text == StripFence(trim(r.reply[1].content[1].text))
    IN  (r.reply # <<>> /\ IsText(r.reply[1])) =>
          IF HasFixedShape(text)
          THEN /\ Succeeded(r)
               /\ r.outcome[1].title = JSON_parse(text).members["title"].s
               /\ r.outcome[1].confidence = JSON_parse(text).members["confidence"].n
          ELSE PairedWith(r, TitleFailed)

\* --------------------------------------------------------------- claim C19
\* C19: every request that made a remote call is eventually finished.  The
\* code sets no timeout on client.messages.create and races it against no
\* timer, so under SpecGatewayLive, where the call may stay unanswered, the
\* formula fails.  Whether the call can stay unanswered is decided by the
\* request timeout of the @anthropic-ai/sdk client, which is no part of these
\* sources: a rejection after that timeout is a ReplyRejected, and ends the
\* request as 'AI Analysis Failed'.  The claim is left open.
C19_Original ==
  \A i \in 1..MaxRequests :
    [](i \in Awaiting => <>(i \in DOMAIN requests /\ requests[i].pc = "done"))

\* --------------------------------------------------------------- claim C20
\* the local events the parser's events call for, in order
RECURSIVE ExpectedLocal(_, _)
ExpectedLocal(events, h) ==
  IF events = <<>> THEN <<>>
  ELSE LET e == Head(events)
           here == IF e.type # "error" THEN <<>>
                   ELSE <<[type |-> "error-detected", id |-> e.payload.id]>>
                          \o (IF Matches(h, e.payload)
                              THEN <<[type |-> "analysis-result", id |-> e.payload.id]>>
                              ELSE <<>>)
       IN  here \o ExpectedLocal(Tail(events), h)
Summary(events) ==
  [k \in 1..Len(events) |-> [type |-> events[k].type, id |-> IdOf(events[k])]]
Payloads(events) == [k \in 1..Len(events) |-> events[k].payload]
LocalPublished == SelectSeq(published, IsLocalEvent)
LocalAnalyses == SelectSeq(_analyses, LAMBDA a : a.analysisType = "local")
\* C20: whatever remote calls are outstanding or have been answered, the
\* service has stored every record the parser emitted and published, in the
\* parser's order, each record and its local verdict (none is missing, none
\* is out of place, every local verdict is still stored).
C20_IngestionUnaffected ==
  /\ Summary(LocalPublished) = ExpectedLocal(emitted, heap)
  /\ _errors = Payloads(SelectSeq(emitted, LAMBDA e : e.type = "error"))
  /\ LocalAnalyses
       = Payloads(SelectSeq(LocalPublished, LAMBDA ev : ev.type = "analysis-result"))
\* C20 witness: after a remote call was made a record and its local verdict
\* were published, and then the outcome of that call
C20_Witness ==
  \E i \in 1..Len(requests) :
    /\ requests[i].called
    /\ requests[i].pc = "done"
    /\ requests[i].outcome # <<>>
    /\ published[Len(published)].type = "analysis-result"
    /\ published[Len(published)].payload = requests[i].outcome[1]
    /\ \E k \in (requests[i].publishedBefore + 1)..(Len(published) - 2) :
         /\ published[k].type = "error-detected"
         /\ published[k + 1].type = "analysis-result"
         /\ published[k + 1].payload.analysisType = "local"

\* --------------------------------------------------------------- claim C22
\* the sub-lines of a delivered line: the line cut at every escaped break
RECURSIVE SubLines(_)
SubLines(line) ==
  IF \A k \in 1..Len(line) : line[k] # EscapedNewline THEN <<line>>
  ELSE LET k == CHOOSE j \in 1..Len(line) :
                  /\ line[j] = EscapedNewline
                  /\ \A i \in 1..(j - 1) : line[i] # EscapedNewline
       IN  <<SubSeq(line, 1, k - 1)>> \o SubLines(SubSeq(line, k + 1, Len(line)))

HasEscape(line) == \E k \in 1..Len(line) : line[k] = EscapedNewline
IsPrefix(s, t) == Len(s) <= Len(t) /\ SubSeq(t, 1, Len(s)) = s

\* C22 as stated (counterexample): while the record opened by a delivered
\* line that holds escaped breaks is open, its message is that of the first
\* sub-line alone, and the remaining sub-lines are already in its buffers,
\* frames as frames and the others as context.
C22_Original ==
  (IsOpen /\ HasEscape(input[openedAt])) =>
     LET subs == SubLines(trimEnd(input[openedAt]))
         rest == Tail(subs)
     IN  /\ currentError[1].message = MatchLogLine(trimEnd(subs[1])).message
         /\ IsPrefix(SelectSeq(rest, IsTraceLine), heap[stackTraceBuffer])
         /\ IsPrefix(SelectSeq(rest, IsContextLine), heap[contextLinesBuffer])

\* --------------------------------------------------------------- claim C26
\* confidences are kept in hundredths: 0.0 is 0 and 1.0 is 100
PublishedResults ==
  {k \in 1..Len(published) : published[k].type = "analysis-result"}

\* C26 as stated (counterexample): every analysis result published, local or
\* remote, has a confidence within [0.0, 1.0].
C26_Original ==
  \A k \in PublishedResults :
    /\ published[k].payload.confidence >= 0
    /\ published[k].payload.confidence <= 100

\* --------------------------------------------------------------- claim C25
Parsed(stackTrace) ==
  {ParseFrame(stackTrace[k]) : k \in {j \in 1..Len(stackTrace) : ParseFrame(stackTrace[j]).ok}}
Eligible(stackTrace) ==
  {f \in Parsed(stackTrace) : ~IsDenied(f.className) /\ f.fileName \in ReadableFiles}
Location(f) == <<f.className, f.lineNumber>>

\* C25: the windows extract returns are windows of frames of the list whose
\* class is under no denied package and whose file can be read, no two of
\* them for the same (class, line) pair, and at most 3 of them; frames that
\* cannot be parsed or resolved are passed over and the others still extracted.
C25_BoundedUserWindows ==
  \A e \in 1..Len(extractions) :
    LET windows == extractions[e].windows
        eligible == Eligible(extractions[e].stackTrace)
    IN  /\ \A w \in 1..Len(windows) : windows[w] \in eligible
        /\ \A v, w \in 1..Len(windows) :
             Location(windows[v]) = Location(windows[w]) => v = w
        /\ Len(windows) <= MaxWindows
        /\ Len(windows) < MaxWindows =>
             {Location(f) : f \in eligible} = {Location(windows[w]) : w \in 1..Len(windows)}

\* reached: a list with a framework frame and four frames of the application
\* gave three windows
C25_Witness ==
  \E e \in 1..Len(extractions) :
    /\ \E k \in 1..Len(extractions[e].stackTrace) :
         LET f == ParseFrame(extractions[e].stackTrace[k])
         IN  f.ok /\ IsDenied(f.className)
    /\ Cardinality({Location(f) : f \in Eligible(extractions[e].stackTrace)}) > MaxWindows
    /\ Len(extractions[e].windows) = MaxWindows

\* --------------------------------------------------------------- claim C28
Groups == MapGet(errorGroupsMap, ServiceId, <<>>)
First(S) == CHOOSE x \in S : \A y \in S : x <= y
Last(S) == CHOOSE x \in S : \A y \in S : y <= x
RECURSIVE SumCounts(_)
SumCounts(groups) ==
  IF groups = <<>> THEN 0 ELSE Head(groups).count + SumCounts(Tail(groups))

\* the grouping the claim names: the logger and the first 120 characters
SameHead(e, f) ==
  e.logger = f.logger /\ Substring(e.message, KeyChars) = Substring(f.message, KeyChars)
\* the same, the whitespace at both ends of those characters left aside
SameKey(e, f) ==
  /\ e.logger = f.logger
  /\ trim(Substring(e.message, KeyChars)) = trim(Substring(f.message, KeyChars))

\* what a grouping by Same(_, _) makes of the errors received
GroupedBy(Same(_, _)) ==
  /\ \A k \in 1..Len(received) :
       Cardinality({g \in 1..Len(Groups) :
                      Same(Groups[g].representativeError, received[k])}) = 1
  /\ \A g \in 1..Len(Groups) :
       LET members == {k \in 1..Len(received) :
                         Same(Groups[g].representativeError, received[k])}
       IN  /\ members # {}
           /\ Groups[g].count = Cardinality(members)
           /\ Groups[g].representativeError = received[First(members)]
           /\ Groups[g].lastTimestamp = received[Last(members)].timestamp
  /\ SumCounts(Groups) = Len(received)

C21_Original ==
  /\ Len(CircularBuffer_toArray(_logBuf)) <= MAX_LOG_LINES
  /\ Len(_errors) <= MAX_LOG_LINES
  /\ Len(_analyses) <= MAX_LOG_LINES

\* ---------------------------------------------------------------- C24
\* what a webview shows of the service: its lines, its groups, the analyses
View(w) ==
  [logs |-> MapGet(w.logsMap, ServiceId, <<>>),
   groups |-> MapGet(w.errorGroupsMap, ServiceId, <<>>),
   analyses |-> w.analysisMap]

\* C24 (as stated): a webview that loads the snapshot shows the same lines,
\* the same error groups and the same analysis per error id as the webview
\* that stayed attached and received every event, also across a stop and
\* start of the service.  start() empties the service's histories and the
\* new parser numbers its errors from 1 again, while the attached webview
\* keeps what it has.
C24_Original ==
  registered = "added" =>
    View(Webview) = View(loadSnapshot(NewWebview, getSnapshot(App)))

\* ---------------------------------------------------------------- C27
\* the 'error-detected' events the service has emitted
Detected ==
  Cardinality({k \in 1..Len(published) : published[k].type = "error-detected"})

Notifiable(w) == w.count = 1 \/ w.count % NotifyEvery = 0

\* C27: the service's count is the number of its 'error-detected' events
\* for as long as it is registered, stops and starts included, and is
\* gone once the service is removed; the notifications shown are those
\* of the counts 1, 5, 10, ... in this order, one each.
C27_NotifySchedule ==
  /\ registered = "added" => MapGet(errorCountMap, ServiceId, 0) = Detected
  /\ registered = "removed" => ServiceId \notin DOMAIN errorCountMap
  /\ warnings = SelectSeq([c \in 1..Detected |-> [serviceId |-> ServiceId, count |-> c]],
                          Notifiable)

\* the fifth error of a service that was stopped and started again
C27_Witness ==
  /\ Len(procs) = 2
  /\ Detected = NotifyEvery
  /\ Len(warnings) = 2
  /\ warnings[2].count = NotifyEvery

\* ---------------------------------------------------------------- C29
\* the processes that run and were not told to end, and the launches
\* that are still to spawn one
LiveOrLaunching ==
  Len(pending)
    + Cardinality({pid \in 1..Len(procs) :
                     procs[pid].alive /\ ~procs[pid].term /\ ~procs[pid].kill})

\* C29 (as stated): at most one process of the service is live or being
\* launched at any time.  start() is ignored only when springProcess is
\* set, which it is not while an install or the JDT calls are pending.
C29_Original == LiveOrLaunching <= 1

\* ---------------------------------------------------------------- C30
\* C30 (as stated): a process that stop() signalled is never reported with
\* status 'error', whatever code or signal it ends with.  The exit handler
\* reports 'stopped' only for code 0 or signal SIGTERM.
C30_Original ==
  \A pid \in 1..Len(procs) :
    procs[pid].stopped /\ procs[pid].exit # <<>> => procs[pid].reported = <<"stopped">>

\* ---------------------------------------------------------------- C23
\* C23 (as stated): a service registered from the add-service modal
\* eventually leaves status 'idle'.  addAndStartModules awaits addService
\* for each module and calls nothing that starts it.
C23_Original == [](addedVia = "modal" => <>(_status # "idle"))

\* ---------------------------------------------------------------- C31
Min(a, b) == IF a < b THEN a ELSE b
LastOf(s, n) == SubSeq(s, Len(s) - n + 1, Len(s))

\* C31: toArray() returns the last min(n, capacity) items pushed since
\* construction or the last clear(), in the order they were pushed; it
\* returns what the array store with shift() holds; size is min(n, capacity).
C31_LastPushed ==
  LET n == Min(Len(pushed), ring.capacity)
  IN  /\ CircularBuffer_toArray(ring) = LastOf(pushed, n)
      /\ CircularBuffer_toArray(ring) = _logs
      /\ ring._size = n

\* more pushes than the capacity, ending on a head that has wrapped and
\* is not back at 0
C31_Witness ==
  /\ Len(pushed) > ring.capacity
  /\ ring.head # 0
  /\ CircularBuffer_toArray(ring)[1] # CircularBuffer_toArray(ring)[ring.capacity]

\* ---------------------------------------------------------------- C32
\* the lines from..to of the input, as the parser sees them
RECURSIVE TrimmedLines(_, _)
TrimmedLines(from, to) ==
  IF from > to THEN <<>> ELSE <<trimEnd(input[from])>> \o TrimmedLines(from + 1, to)

IsFrame(t) == t # <<>> /\ IsTraceLine(t)
IsContext(t) == t # <<>> /\ ~IsTraceLine(t)
IsNotFrame(t) == ~IsFrame(t)

\* C32: while a record is open, every line after its header is in the
\* frame buffer or in the context buffer, never in both, and in the raw
\* lines; an emitted record's stackTrace is the frame lines in arrival
\* order followed by the non-blank context lines in arrival order, and
\* its rawLines are the header and every line after it, blank ones too.
C32_FramesThenContext ==
  /\ currentError # <<>> =>
       LET body == TrimmedLines(openedAt + 1, Len(input))
       IN  /\ heap[stackTraceBuffer] = SelectSeq(body, IsFrame)
           /\ heap[contextLinesBuffer] = SelectSeq(body, IsNotFrame)
           /\ heap[rawLinesBuffer] = <<trimEnd(input[openedAt])>> \o body
  /\ \A k \in 1..Len(emitted) :
       emitted[k].type = "error" =>
         LET e == emitted[k]
             body == TrimmedLines(e.src + 1, e.last)
         IN  /\ heap[e.payload.stackTrace]
                  = SelectSeq(body, IsFrame) \o SelectSeq(body, IsContext)
             /\ heap[e.payload.rawLines] = <<trimEnd(input[e.src])>> \o body
             /\ Len(heap[e.payload.rawLines])
                  = 1 + Len(SelectSeq(body, IsFrame)) + Len(SelectSeq(body, IsNotFrame))

\* a record whose context line arrived before its frame line
C32_Witness ==
  \E k \in 1..Len(emitted) :
    /\ emitted[k].type = "error"
    /\ emitted[k].last = emitted[k].src + 2
    /\ IsContext(trimEnd(input[emitted[k].src + 1]))
    /\ IsFrame(trimEnd(input[emitted[k].src + 2]))

\* ---------------------------------------------------------------- C33
\* the step delivers a line that is no header while no record is open
OrphanLine ==
  /\ currentError = <<>>
  /\ Len(input') = Len(input) + 1
  /\ ~MatchLogLine(trimEnd(input'[Len(input')])).ok

\* C33: a line that is no header, a blank one included, arriving while no
\* record is open emits nothing, opens nothing and changes no buffer and
\* no counter; a record holds no line that arrived before its header.
C33_OrphanIgnored ==
  /\ [][OrphanLine =>
          UNCHANGED <<currentError, stackTraceBuffer, rawLinesBuffer, contextLinesBuffer,
                      errorCounter, heap, emitted, openedAt, suppressed>>]_vars
  /\ [](\A k \in 1..Len(emitted) :
          emitted[k].type = "error" =>
            heap[emitted[k].payload.rawLines]
              = TrimmedLines(emitted[k].src, emitted[k].last))

\* a frame line with no record open, then a record
C33_Witness ==
  /\ Len(input) >= 2
  /\ input[1] = LineFrame
  /\ \E k \in 1..Len(emitted) : emitted[k].type = "error" /\ emitted[k].src = 2

\* ---------------------------------------------------------------- C38
\* C38: flush() with no record open leaves the parser as it is, a second
\* flush() right after a first changes nothing more, and no record is
\* emitted twice.
C38_FlushIdempotent ==
  /\ currentError = <<>> => flush(Parser) = Parser
  /\ flush(flush(Parser)) = flush(Parser)
  /\ \A j, k \in 1..Len(emitted) :
       emitted[j].type = "error" /\ emitted[k].type = "error"
         /\ emitted[j].src = emitted[k].src => j = k

\* a record closed by flush(), with nothing open any more
C38_Witness ==
  /\ currentError = <<>>
  /\ \E k \in 1..Len(emitted) :
       emitted[k].type = "error" /\ emitted[k].last = Len(input)
                                 /\ ~MatchLogLine(trimEnd(input[Len(input)])).ok

\* ---------------------------------------------------------------- C37
\* C37 (as stated): the gateway is configured exactly when the last
\* configure supplied a non-empty key.  configure replaces the client only
\* when the key is non-empty, so the client of an earlier call stays in use
\* after a configure with the empty key.
C37_Original ==
  lastApiKey # <<>> => (isConfigured(Gateway) <=> lastApiKey[1] # "")

\* ---------------------------------------------------------------- C39
\* the step is a requestAiAnalysis whose analyze made no remote call
ShortCircuit ==
  /\ Len(requests') = Len(requests) + 1
  /\ ~requests'[Len(requests')].called

Unexpired(t) == t > DateNow(clock) - OneMinute

\* C39 (as stated): an analyze that short-circuits leaves the gateway as it
\* was.  canMakeRequest assigns the filtered window before it answers, so
\* a rejected call drops the timestamps that are older than a minute.
C39_Original ==
  [][ShortCircuit => UNCHANGED <<client, maxRequestsPerMinute, requestTimestamps, remote>>]_vars

\* C39 (amended): an analyze that short-circuits records no timestamp,
\* makes no remote call and changes neither the client nor the ceiling;
\* unconfigured it changes nothing, rate limited it leaves in the window
\* the timestamps of the last minute, in their order, and only those.
C39_NoTimestampRecorded ==
  [][ShortCircuit =>
       /\ UNCHANGED <<client, maxRequestsPerMinute, remote>>
       /\ requestTimestamps' = IF client = <<>> THEN requestTimestamps
                               ELSE SelectSeq(requestTimestamps, Unexpired)]_vars

\* a rejected request that found an expired timestamp in a full window
C39_Witness ==
  \E i \in 1..Len(requests) :
    /\ requests[i].configured
    /\ ~requests[i].called
    /\ Len(requestTimestamps) < Cardinality({j \in 1..Len(requests) : requests[j].called})
    /\ Len(requestTimestamps) >= maxRequestsPerMinute

\* ---------------------------------------------------------------- C34
\* C34 (as stated): no process is spawned between a stop() or dispose()
\* and the next start().  stop() and dispose() end the Spring process only;
\* an install that is running or a JDT call that is pending goes on and
\* launches the process when it completes.
C34_Original == \A pid \in 1..Len(procs) : ~procs[pid].afterStop

\* ---------------------------------------------------------------- C35
\* the step is the exit of pid, a process older than the current one
StaleExit(pid) ==
  /\ procs[pid].alive
  /\ ~procs'[pid].alive
  /\ springProcess # <<>>
  /\ springProcess[1] > pid

\* C35 (as stated): the exit of a process that was replaced leaves the
\* reference to the new process, its line readers and the status alone.
\* Every exit handler closes all readers, clears springProcess and sets the
\* status, whichever process it was registered on.
C35_Original ==
  [][\A pid \in 1..Len(procs) :
       StaleExit(pid) =>
         /\ springProcess' = springProcess
         /\ readlineInterfaces \cap {springProcess[1]}
              \subseteq readlineInterfaces'
         /\ _status' = _status]_vars

\* ---------------------------------------------------------------- C36
\* C36 (as stated): no two error records of the service carry the same
\* id, also across a stop and start.  Every launch makes a new LogParser
\* whose counter starts at 0, so the ids of the previous run come again.
C36_Original ==
  \A j, k \in 1..Len(published) :
    published[j].type = "error-detected" /\ published[k].type = "error-detected"
      /\ published[j].payload.id = published[k].payload.id => j = k

====
